---- MODULE Spec2Model ----
(***************************************************************************)
(* Menu Critic: the request pipeline of menu_critic_core.py and the        *)
(* session flow of pages/01_Menu_Critic.py.                                 *)
(*                                                                         *)
(* Representation.  A text the program inspects character by character     *)
(* (menu text, JSON keys and strings, exception messages) is a sequence of *)
(* one-character strings.  A provider response body is a sequence of       *)
(* lexical JSON tokens (whitespace runs included), so that str.strip,      *)
(* json.loads and json.dumps are computed and not assumed.  An optional    *)
(* value (Python None or a value) is a sequence of length 0 or 1.          *)
(***************************************************************************)
EXTENDS Integers, Sequences, FiniteSets, TLC

(***************************************************************************)
(* Program constants (menu_critic_core.py:17-24).                          *)
(***************************************************************************)
REQUEST_COOLDOWN_SECONDS == 10
MAX_TEXT_CHARS == 12000
MAX_IMAGE_UPLOAD_BYTES == 8388608
TARGET_IMAGE_BYTES == 3500000
MIN_EXTRACTED_TEXT_CHARS == 20
\* MIN_VISION_CONFIDENCE = 0.45, in hundredths
MIN_VISION_CONFIDENCE == 45

TEXT_MODEL == "openai/gpt-oss-20b"
VISION_MODEL == "meta-llama/llama-4-scout-17b-16e-instruct"

(***************************************************************************)
(* Optional values.                                                        *)
(***************************************************************************)
None == <<>>
Some(x) == <<x>>
IsSome(m) == Len(m) = 1
The(m) == m[1]

(***************************************************************************)
(* JSON keys, as character sequences.                                      *)
(***************************************************************************)
K_scores == <<"s", "c", "o", "r", "e", "s">>
K_top_5_changes == <<"t", "o", "p", "_", "5", "_", "c", "h", "a", "n", "g", "e", "s">>
K_revenue_levers == <<"r", "e", "v", "e", "n", "u", "e", "_", "l", "e", "v", "e", "r", "s">>
K_rewrite_examples == <<"r", "e", "w", "r", "i", "t", "e", "_", "e", "x", "a", "m", "p", "l", "e", "s">>
K_ab_tests == <<"a", "b", "_", "t", "e", "s", "t", "s">>
K_red_flags == <<"r", "e", "d", "_", "f", "l", "a", "g", "s">>
K_clarity == <<"c", "l", "a", "r", "i", "t", "y">>
K_pricing_psychology == <<"p", "r", "i", "c", "i", "n", "g", "_", "p", "s", "y", "c", "h", "o", "l", "o", "g", "y">>
K_upsell_potential == <<"u", "p", "s", "e", "l", "l", "_", "p", "o", "t", "e", "n", "t", "i", "a", "l">>
K_menu_structure == <<"m", "e", "n", "u", "_", "s", "t", "r", "u", "c", "t", "u", "r", "e">>
K_dietary_signals == <<"d", "i", "e", "t", "a", "r", "y", "_", "s", "i", "g", "n", "a", "l", "s">>
K_conversion == <<"c", "o", "n", "v", "e", "r", "s", "i", "o", "n">>
K_aov == <<"a", "o", "v">>
K_margin == <<"m", "a", "r", "g", "i", "n">>
K_original == <<"o", "r", "i", "g", "i", "n", "a", "l">>
K_rewritten == <<"r", "e", "w", "r", "i", "t", "t", "e", "n">>
K_why_it_helps == <<"w", "h", "y", "_", "i", "t", "_", "h", "e", "l", "p", "s">>
K_hypothesis == <<"h", "y", "p", "o", "t", "h", "e", "s", "i", "s">>
K_variant_a == <<"v", "a", "r", "i", "a", "n", "t", "_", "a">>
K_variant_b == <<"v", "a", "r", "i", "a", "n", "t", "_", "b">>
K_success_metric == <<"s", "u", "c", "c", "e", "s", "s", "_", "m", "e", "t", "r", "i", "c">>
K_menu_text == <<"m", "e", "n", "u", "_", "t", "e", "x", "t">>
K_confidence == <<"c", "o", "n", "f", "i", "d", "e", "n", "c", "e">>
K_notes == <<"n", "o", "t", "e", "s">>

SCORE_KEYS ==
  <<K_clarity, K_pricing_psychology, K_upsell_potential, K_menu_structure, K_dietary_signals>>
TOP_LEVEL_KEYS ==
  <<K_scores, K_top_5_changes, K_revenue_levers, K_rewrite_examples, K_ab_tests, K_red_flags>>
REVENUE_KEYS == <<K_conversion, K_aov, K_margin>>
REWRITE_KEYS == <<K_original, K_rewritten, K_why_it_helps>>
AB_TEST_KEYS == <<K_hypothesis, K_variant_a, K_variant_b, K_success_metric>>

(***************************************************************************)
(* JSON values as Python holds them after json.loads.  An object is the    *)
(* sequence of its <<key, value>> pairs in insertion order (a dict).       *)
(* A float is held in hundredths.                                          *)
(***************************************************************************)
JObj(pairs) == [t |-> "obj", v |-> pairs]
JArr(items) == [t |-> "arr", v |-> items]
JStr(chars) == [t |-> "str", v |-> chars]
JInt(n) == [t |-> "int", v |-> n]
JFloat(h) == [t |-> "float", v |-> h]
JBool(b) == [t |-> "bool", v |-> b]
JNull == [t |-> "null", v |-> 0]
\* json.loads reads the literal NaN as a float
JNaN == [t |-> "nan", v |-> 0]

\* key in d
HasKey(d, k) == \E j \in 1..Len(d.v) : d.v[j][1] = k
\* d[key]
GetKey(d, k) == d.v[CHOOSE j \in 1..Len(d.v) : d.v[j][1] = k][2]
\* d[key] = value: an existing key keeps its place
DictPut(pairs, k, val) ==
  IF \E j \in 1..Len(pairs) : pairs[j][1] = k
  THEN [j \in 1..Len(pairs) |-> IF pairs[j][1] = k THEN <<k, val>> ELSE pairs[j]]
  ELSE Append(pairs, <<k, val>>)

(***************************************************************************)
(* Lexical tokens of a response body.                                      *)
(***************************************************************************)
Tk(kind) == [k |-> kind, s |-> <<>>, n |-> 0]
TStr(chars) == [k |-> "str", s |-> chars, n |-> 0]
TInt(n) == [k |-> "int", s |-> <<>>, n |-> n]
TFloat(h) == [k |-> "float", s |-> <<>>, n |-> h]
WS == Tk("ws")

\* str.strip() of a body: leading and trailing whitespace removed
Strip(toks) ==
  LET keep == {i \in 1..Len(toks) : toks[i].k # "ws"} IN
  IF keep = {} THEN <<>>
  ELSE SubSeq(toks, CHOOSE i \in keep : \A j \in keep : i <= j,
                    CHOOSE i \in keep : \A j \in keep : j <= i)

(***************************************************************************)
(* json.loads: whitespace between tokens is skipped, then one value is     *)
(* parsed and nothing may follow it.                                       *)
(***************************************************************************)
NoWs(toks) == SelectSeq(toks, LAMBDA tok : tok.k # "ws")

PFail == [ok |-> FALSE, val |-> JNull, next |-> 0]
POk(val, next) == [ok |-> TRUE, val |-> val, next |-> next]

RECURSIVE ParseValue(_, _), ParseArr(_, _, _), ParseObj(_, _, _)
ParseValue(t, i) ==
  IF i > Len(t) THEN PFail
  ELSE CASE t[i].k = "str" -> POk(JStr(t[i].s), i + 1)
         [] t[i].k = "int" -> POk(JInt(t[i].n), i + 1)
         [] t[i].k = "float" -> POk(JFloat(t[i].n), i + 1)
         [] t[i].k = "true" -> POk(JBool(TRUE), i + 1)
         [] t[i].k = "false" -> POk(JBool(FALSE), i + 1)
         [] t[i].k = "null" -> POk(JNull, i + 1)
         [] t[i].k = "NaN" -> POk(JNaN, i + 1)
         [] t[i].k = "[" ->
              IF i + 1 <= Len(t) /\ t[i + 1].k = "]"
              THEN POk(JArr(<<>>), i + 2) ELSE ParseArr(t, i + 1, <<>>)
         [] t[i].k = "{" ->
              IF i + 1 <= Len(t) /\ t[i + 1].k = "}"
              THEN POk(JObj(<<>>), i + 2) ELSE ParseObj(t, i + 1, <<>>)
         [] OTHER -> PFail
ParseArr(t, i, acc) ==
  LET r == ParseValue(t, i) IN
  IF ~r.ok \/ r.next > Len(t) THEN PFail
  ELSE IF t[r.next].k = "," THEN ParseArr(t, r.next + 1, Append(acc, r.val))
  ELSE IF t[r.next].k = "]" THEN POk(JArr(Append(acc, r.val)), r.next + 1)
  ELSE PFail
ParseObj(t, i, acc) ==
  IF i + 1 > Len(t) \/ t[i].k # "str" \/ t[i + 1].k # ":" THEN PFail
  ELSE LET r == ParseValue(t, i + 2) IN
       IF ~r.ok \/ r.next > Len(t) THEN PFail
       ELSE IF t[r.next].k = ","
            THEN ParseObj(t, r.next + 1, DictPut(acc, t[i].s, r.val))
       ELSE IF t[r.next].k = "}"
            THEN POk(JObj(DictPut(acc, t[i].s, r.val)), r.next + 1)
       ELSE PFail

\* json.loads(text): [ok |-> FALSE] stands for JSONDecodeError
Loads(text) ==
  LET t == NoWs(text)
      r == ParseValue(t, 1)
  IN IF r.ok /\ r.next = Len(t) + 1 THEN [ok |-> TRUE, val |-> r.val]
     ELSE [ok |-> FALSE, val |-> JNull]

(***************************************************************************)
(* dumps_pretty_json: json.dumps(data, indent=2).  Between tokens it puts  *)
(* line breaks and indentation (whitespace tokens); an empty list or dict  *)
(* is written without any.                                                 *)
(***************************************************************************)
RECURSIVE DumpValue(_), DumpItems(_, _), DumpPairs(_, _)
DumpValue(x) ==
  CASE x.t = "str" -> <<TStr(x.v)>>
    [] x.t = "int" -> <<TInt(x.v)>>
    [] x.t = "float" -> <<TFloat(x.v)>>
    [] x.t = "bool" -> <<Tk(IF x.v THEN "true" ELSE "false")>>
    [] x.t = "null" -> <<Tk("null")>>
    [] x.t = "nan" -> <<Tk("NaN")>>
    [] x.t = "arr" ->
         IF x.v = <<>> THEN <<Tk("["), Tk("]")>>
         ELSE <<Tk("["), WS>> \o DumpItems(x.v, 1) \o <<WS, Tk("]")>>
    [] x.t = "obj" ->
         IF x.v = <<>> THEN <<Tk("{"), Tk("}")>>
         ELSE <<Tk("{"), WS>> \o DumpPairs(x.v, 1) \o <<WS, Tk("}")>>
DumpItems(items, i) ==
  IF i = Len(items) THEN DumpValue(items[i])
  ELSE DumpValue(items[i]) \o <<Tk(","), WS>> \o DumpItems(items, i + 1)
DumpPairs(pairs, i) ==
  LET one == <<TStr(pairs[i][1]), Tk(":"), WS>> \o DumpValue(pairs[i][2]) IN
  IF i = Len(pairs) THEN one
  ELSE one \o <<Tk(","), WS>> \o DumpPairs(pairs, i + 1)
dumps_pretty_json(data) == DumpValue(data)

(***************************************************************************)
(* Characters and character sequences.                                     *)
(***************************************************************************)
UPPER ==
  <<"A", "B", "C", "D", "E", "F", "G", "H", "I", "J", "K", "L", "M", "N", "O", "P", "Q", "R", "S", "T", "U", "V", "W", "X", "Y", "Z">>
LOWER ==
  <<"a", "b", "c", "d", "e", "f", "g", "h", "i", "j", "k", "l", "m", "n", "o", "p", "q", "r", "s", "t", "u", "v", "w", "x", "y", "z">>
DIGITS == {"0", "1", "2", "3", "4", "5", "6", "7", "8", "9"}
Range(f) == {f[i] : i \in DOMAIN f}
IsSpaceCh(c) == c \in {" ", "\n", "\t", "\r"}
LowerCh(c) ==
  IF c \in Range(UPPER) THEN LOWER[CHOOSE i \in 1..Len(UPPER) : UPPER[i] = c] ELSE c
\* str.lower()
LowerStr(s) == [i \in 1..Len(s) |-> LowerCh(s[i])]
\* str.strip(): the characters from the first to the last that is no
\* whitespace, found from the two ends
StripStr(s) ==
  IF \A i \in 1..Len(s) : IsSpaceCh(s[i]) THEN <<>>
  ELSE LET lead == CHOOSE n \in 0..(Len(s) - 1) :
                     ~IsSpaceCh(s[n + 1]) /\ \A j \in 1..n : IsSpaceCh(s[j])
           trail == CHOOSE n \in 0..(Len(s) - 1) :
                      ~IsSpaceCh(s[Len(s) - n])
                      /\ \A j \in (Len(s) - n + 1)..Len(s) : IsSpaceCh(s[j])
       IN SubSeq(s, lead + 1, Len(s) - trail)
\* sub in s
Contains(s, sub) ==
  \E i \in 1..(Len(s) - Len(sub) + 1) : SubSeq(s, i, i + Len(sub) - 1) = sub
\* s.startswith(prefix)
StartsWith(s, prefix) ==
  Len(s) >= Len(prefix) /\ SubSeq(s, 1, Len(prefix)) = prefix
\* the least i in 1..n with P(i), or 0
FirstIndex(n, P(_)) ==
  IF \E i \in 1..n : P(i)
  THEN CHOOSE i \in 1..n : P(i) /\ \A j \in 1..(i - 1) : ~P(j)
  ELSE 0

(***************************************************************************)
(* Exception messages: a fixed text and the interpolated part.             *)
(***************************************************************************)
Msg(text, arg) == [pre |-> "", msg |-> text, arg |-> arg]
NoMsg == Msg("", <<>>)
\* f"{prefix}{exc}"
Prefixed(prefix, m) == [m EXCEPT !.pre = prefix]

(***************************************************************************)
(* _manual_validate_critique (menu_critic_core.py:453-506): the checks in  *)
(* the order of the code; the first that fails decides the ValueError.     *)
(***************************************************************************)
VOk == [ok |-> TRUE, err |-> NoMsg]
VErr(text, arg) == [ok |-> FALSE, err |-> Msg(text, arg)]

\* line 457: the keys the loop looks for
REQUIRED_KEYS ==
  <<K_scores, K_top_5_changes, K_revenue_levers, K_rewrite_examples, K_ab_tests, K_red_flags>>

\* isinstance(x, int): bool is a subclass of int in Python
IsInstanceInt(x) == x.t \in {"int", "bool"}
\* the integer a Python int (or bool) compares as
AsInt(x) == IF x.t = "bool" THEN (IF x.v THEN 1 ELSE 0) ELSE x.v
\* isinstance(x, list) and all(isinstance(i, str) for i in x)
IsList(x) == x.t = "arr"
AllStr(x) == \A i \in 1..Len(x.v) : x.v[i].t = "str"
\* isinstance(item.get(k), str)
GetIsStr(item, k) == HasKey(item, k) /\ GetKey(item, k).t = "str"

\* lines 464-471
ScoreBad(scores, k) ==
  \/ ~HasKey(scores, k)
  \/ ~IsInstanceInt(GetKey(scores, k))
  \/ ~(0 <= AsInt(GetKey(scores, k)) /\ AsInt(GetKey(scores, k)) <= 100)
ValidateScores(scores) ==
  IF scores.t # "obj" THEN VErr("scores must be an object.", <<>>)
  ELSE LET i == FirstIndex(Len(SCORE_KEYS), LAMBDA j : ScoreBad(scores, SCORE_KEYS[j])) IN
       IF i = 0 THEN VOk
       ELSE IF ~HasKey(scores, SCORE_KEYS[i]) THEN VErr("scores missing ", SCORE_KEYS[i])
       ELSE IF ~IsInstanceInt(GetKey(scores, SCORE_KEYS[i]))
            THEN VErr("scores.{key} must be an integer.", SCORE_KEYS[i])
       ELSE VErr("scores.{key} must be 0-100.", SCORE_KEYS[i])

\* lines 473-476
ValidateTopChanges(x) ==
  IF ~IsList(x) THEN VErr("top_5_changes must be a list.", <<>>)
  ELSE IF ~AllStr(x) THEN VErr("top_5_changes items must be strings.", <<>>)
  ELSE VOk

\* lines 478-483
ValidateRevenue(rev) ==
  IF rev.t # "obj" THEN VErr("revenue_levers must be an object.", <<>>)
  ELSE LET bad(k) == ~HasKey(rev, k) \/ ~IsList(GetKey(rev, k)) \/ ~AllStr(GetKey(rev, k))
           i == FirstIndex(Len(REVENUE_KEYS), LAMBDA j : bad(REVENUE_KEYS[j]))
       IN IF i = 0 THEN VOk
          ELSE VErr("revenue_levers.{k} must be a string list.", REVENUE_KEYS[i])

\* lines 485-492 and 494-501: a list of objects, each with the string fields `keys`
ValidateItems(x, keys, notList, notObject, missing) ==
  IF ~IsList(x) THEN VErr(notList, <<>>)
  ELSE LET itemBad(item) == item.t # "obj" \/ \E j \in 1..Len(keys) : ~GetIsStr(item, keys[j])
           i == FirstIndex(Len(x.v), LAMBDA j : itemBad(x.v[j]))
       IN IF i = 0 THEN VOk
          ELSE IF x.v[i].t # "obj" THEN VErr(notObject, <<>>)
          ELSE VErr(missing,
                    keys[FirstIndex(Len(keys), LAMBDA j : ~GetIsStr(x.v[i], keys[j]))])

\* lines 503-504
ValidateRedFlags(x) ==
  IF ~IsList(x) \/ ~AllStr(x) THEN VErr("red_flags must be a string list.", <<>>) ELSE VOk

manual_validate_critique(data) ==
  IF data.t # "obj" THEN VErr("Top-level JSON must be an object.", <<>>)
  ELSE LET i == FirstIndex(Len(REQUIRED_KEYS), LAMBDA j : ~HasKey(data, REQUIRED_KEYS[j])) IN
       IF i # 0 THEN VErr("Missing key: ", REQUIRED_KEYS[i])
       ELSE LET s == ValidateScores(GetKey(data, K_scores)) IN
       IF ~s.ok THEN s
       ELSE LET t == ValidateTopChanges(GetKey(data, K_top_5_changes)) IN
       IF ~t.ok THEN t
       ELSE LET r == ValidateRevenue(GetKey(data, K_revenue_levers)) IN
       IF ~r.ok THEN r
       ELSE LET w == ValidateItems(GetKey(data, K_rewrite_examples), REWRITE_KEYS,
                       "rewrite_examples must be a list.",
                       "rewrite_examples items must be objects.",
                       "rewrite_examples item missing string ") IN
       IF ~w.ok THEN w
       ELSE LET a == ValidateItems(GetKey(data, K_ab_tests), AB_TEST_KEYS,
                       "ab_tests must be a list.",
                       "ab_tests items must be objects.",
                       "ab_tests item missing string ") IN
       IF ~a.ok THEN a
       ELSE ValidateRedFlags(GetKey(data, K_red_flags))

(***************************************************************************)
(* The provider (client.chat.completions.create) as the core sees it: a    *)
(* call either raises an exception with a message, or returns a response   *)
(* whose choices[0].message.content is a body or None.                     *)
(***************************************************************************)
Raises(message) == [kind |-> "raise", content |-> None, msg |-> message]
Returns(content) == [kind |-> "ok", content |-> content, msg |-> <<>>]
NoCall == [kind |-> "nocall", content |-> None, msg |-> <<>>]

\* _chat_content_text (menu_critic_core.py:319-320)
chat_content_text_Mutant(resp) ==
  IF IsSome(resp.content) THEN The(resp.content) ELSE <<>>
chat_content_text(resp) ==
  Strip(IF IsSome(resp.content) THEN The(resp.content) ELSE <<>>)

\* _is_rate_limit_error (menu_critic_core.py:323-325)
RATE_LIMIT == <<"r", "a", "t", "e", " ", "l", "i", "m", "i", "t">>
FOUR_TWO_NINE == <<"4", "2", "9">>
TOO_MANY_REQUESTS ==
  <<"t", "o", "o", " ", "m", "a", "n", "y", " ", "r", "e", "q", "u", "e", "s", "t", "s">>
\* "too many requests" left out
is_rate_limit_error_TwoPhrases_Mutant(message) ==
  LET text == LowerStr(message) IN
  Contains(text, RATE_LIMIT) \/ Contains(text, FOUR_TWO_NINE)
is_rate_limit_error_Mutant(message) ==
  Contains(message, RATE_LIMIT) \/ Contains(message, FOUR_TWO_NINE)
    \/ Contains(message, TOO_MANY_REQUESTS)
is_rate_limit_error(message) ==
  LET text == LowerStr(message) IN
  Contains(text, RATE_LIMIT) \/ Contains(text, FOUR_TWO_NINE)
    \/ Contains(text, TOO_MANY_REQUESTS)

(***************************************************************************)
(* Prompts (menu_critic_core.py:394-450).  A prompt is a fixed template    *)
(* with the request's fields interpolated; it is held as those fields.     *)
(***************************************************************************)
FIX == <<"f", "i", "x">>
ROAST == <<"r", "o", "a", "s", "t">>
NOT_PROVIDED == <<"N", "o", "t", " ", "p", "r", "o", "v", "i", "d", "e", "d">>
critique_user_prompt(menu_text, mode, goal, context) ==
  [menu_text |-> menu_text,
   mode |-> mode,
   goal |-> goal,
   context |-> IF StripStr(context) = <<>> THEN NOT_PROVIDED ELSE StripStr(context),
   style |-> IF StartsWith(LowerStr(mode), ROAST) THEN "roast" ELSE "fix"]
critique_messages(menu_text, mode, goal, context) ==
  [system |-> "Menu Critic system prompt",
   user |-> critique_user_prompt(menu_text, mode, goal, context),
   image |-> None]

\* temperature in hundredths (line 529)
Temperature(mode) == IF StartsWith(LowerStr(mode), FIX) THEN 35 ELSE 100

\* one provider call, as issued
Call(model, temperature, messages, format) ==
  [model |-> model, temperature |-> temperature, messages |-> messages,
   response_format |-> format]

(***************************************************************************)
(* analyze_menu_text (menu_critic_core.py:509-598).  `primary` and         *)
(* `fallback` are what the provider answers to the first and to the second *)
(* call, if they are issued.  The result names the calls issued, in order, *)
(* and how the function ended.                                             *)
(***************************************************************************)
Outcome(kind, value, raw, meta, err) ==
  [kind |-> kind, value |-> value, raw |-> raw, meta |-> meta, err |-> err]

\* the parsed value returned without the call of line 581
ParseAndValidate_Mutant(raw_output, format) ==
  LET parsed == Loads(raw_output) IN
  IF ~parsed.ok
  THEN Outcome("InvalidJSONResponse", None, Some(raw_output), None,
               Msg("Model returned invalid JSON", <<>>))
  ELSE Outcome("return", Some(parsed.val), Some(raw_output),
               Some([model |-> TEXT_MODEL, response_format |-> format]), NoMsg)

\* lines 574-598: parse, validate, return
ParseAndValidate(raw_output, format) ==
  LET parsed == Loads(raw_output) IN
  IF ~parsed.ok
  THEN Outcome("InvalidJSONResponse", None, Some(raw_output), None,
               Msg("Model returned invalid JSON", <<>>))
  ELSE LET checked == manual_validate_critique(parsed.val) IN
       IF ~checked.ok
       THEN Outcome("InvalidJSONResponse", None, Some(raw_output), None,
                    Prefixed("JSON shape was invalid: ", checked.err))
       ELSE Outcome("return", Some(parsed.val), Some(raw_output),
                    Some([model |-> TEXT_MODEL, response_format |-> format]), NoMsg)

\* line 555: does the primary failure lead to the fallback call
NeedsFallback(primary) == primary.kind = "raise" /\ ~is_rate_limit_error(primary.msg)

\* lines 527-534: the arguments both calls share
create_kwargs(menu_text, mode, goal, context) ==
  [model |-> TEXT_MODEL, temperature |-> Temperature(mode),
   messages |-> critique_messages(menu_text, mode, goal, context)]
\* lines 541-551: the call with the strict schema
PrimaryCall(kwargs) ==
  Call(kwargs.model, kwargs.temperature, kwargs.messages, "json_schema")
\* lines 561-564: the call in json_object mode
FallbackCall_Mutant(kwargs) ==
  Call(kwargs.model, 0, kwargs.messages, "json_object")
FallbackCall(kwargs) ==
  Call(kwargs.model, kwargs.temperature, kwargs.messages, "json_object")

analyze_menu_text_Mutant(menu_text, mode, goal, context, primary, fallback) ==
  LET kwargs == create_kwargs(menu_text, mode, goal, context)
      call1 == PrimaryCall(kwargs)
      call2 == FallbackCall(kwargs)
  IN IF primary.kind = "ok"
     THEN [calls |-> <<call1>>,
           out |-> ParseAndValidate(chat_content_text(primary), "json_schema")]
     ELSE IF is_rate_limit_error(primary.msg)
     THEN [calls |-> <<call1>>,
           out |-> Outcome("RateLimitLikeError", None, None, None, Msg("", primary.msg))]
     ELSE IF fallback.kind = "ok"
     THEN [calls |-> <<call1, call2>>,
           out |-> ParseAndValidate(chat_content_text(fallback), "json_object")]
     ELSE IF is_rate_limit_error(fallback.msg)
     THEN [calls |-> <<call1, call2>>,
           out |-> Outcome("RateLimitLikeError", None, None, None, Msg("", fallback.msg))]
     ELSE [calls |-> <<call1, call2>>,
           out |-> Outcome("MenuCriticError", None, None, None,
                           Msg("Groq request failed: ", primary.msg))]
analyze_menu_text(menu_text, mode, goal, context, primary, fallback) ==
  LET kwargs == create_kwargs(menu_text, mode, goal, context)
      call1 == PrimaryCall(kwargs)
      call2 == FallbackCall(kwargs)
  IN IF primary.kind = "ok"
     THEN [calls |-> <<call1>>,
           out |-> ParseAndValidate(chat_content_text(primary), "json_schema")]
     ELSE IF is_rate_limit_error(primary.msg)
     THEN [calls |-> <<call1>>,
           out |-> Outcome("RateLimitLikeError", None, None, None, Msg("", primary.msg))]
     ELSE IF fallback.kind = "ok"
     THEN [calls |-> <<call1, call2>>,
           out |-> ParseAndValidate(chat_content_text(fallback), "json_object")]
     ELSE IF is_rate_limit_error(fallback.msg)
     THEN [calls |-> <<call1, call2>>,
           out |-> Outcome("RateLimitLikeError", None, None, None, Msg("", fallback.msg))]
     ELSE [calls |-> <<call1, call2>>,
           out |-> Outcome("MenuCriticError", None, None, None,
                           Msg("Groq request failed: ", fallback.msg))]

(***************************************************************************)
(* Python floats, in hundredths, with not-a-number and the infinities.     *)
(***************************************************************************)
Num(h) == [k |-> "num", h |-> h]
NaN == [k |-> "nan", h |-> 0]
PosInf == [k |-> "inf", h |-> 1]
NegInf == [k |-> "inf", h |-> -1]
\* a < b on floats: false whenever one side is not-a-number
FloatLt(a, b) ==
  /\ a.k # "nan" /\ b.k # "nan"
  /\ IF a.k = "inf" THEN a.h < 0 /\ ~(b.k = "inf" /\ b.h < 0)
     ELSE IF b.k = "inf" THEN b.h > 0
     ELSE a.h < b.h
\* min(a, b) and max(a, b) as Python computes them: the first argument is
\* kept unless the second is smaller (larger)
PyMin(a, b) == IF FloatLt(b, a) THEN b ELSE a
PyMax(a, b) == IF FloatLt(a, b) THEN b ELSE a

DIGIT_SEQ == <<"0", "1", "2", "3", "4", "5", "6", "7", "8", "9">>
DigitVal(c) == (CHOOSE i \in 1..10 : DIGIT_SEQ[i] = c) - 1
RECURSIVE DigitsVal(_)
DigitsVal(ds) ==
  IF ds = <<>> THEN 0 ELSE 10 * DigitsVal(SubSeq(ds, 1, Len(ds) - 1)) + DigitVal(ds[Len(ds)])
AllDigits(ds) == \A i \in 1..Len(ds) : ds[i] \in DIGITS
RECURSIVE IntToStr(_)
IntToStr(n) ==
  IF n < 0 THEN <<"-">> \o IntToStr(-n)
  ELSE IF n < 10 THEN <<DIGIT_SEQ[n + 1]>>
  ELSE IntToStr(n \div 10) \o <<DIGIT_SEQ[(n % 10) + 1]>>

\* float(s) for a str: surrounding whitespace and a sign are allowed; "nan",
\* "inf" and "infinity" in any case are numbers; [ok |-> FALSE] stands for
\* ValueError.  Decimal texts with at most two decimals are computed;
\* exponents and longer fractions are outside the model.
FloatOfStr(chars) ==
  LET s == LowerStr(StripStr(chars))
      signed == s # <<>> /\ s[1] \in {"+", "-"}
      neg == s # <<>> /\ s[1] = "-"
      body == IF signed THEN Tail(s) ELSE s
      dot == FirstIndex(Len(body), LAMBDA i : body[i] = ".")
      whole == IF dot = 0 THEN body ELSE SubSeq(body, 1, dot - 1)
      frac == IF dot = 0 THEN <<>> ELSE SubSeq(body, dot + 1, Len(body))
      mag == 100 * DigitsVal(whole)
             + (IF Len(frac) = 0 THEN 0
                ELSE IF Len(frac) = 1 THEN 10 * DigitsVal(frac)
                ELSE DigitsVal(frac))
  IN IF body = <<"n", "a", "n">> THEN [ok |-> TRUE, f |-> NaN]
     ELSE IF body \in {<<"i", "n", "f">>, <<"i", "n", "f", "i", "n", "i", "t", "y">>}
     THEN [ok |-> TRUE, f |-> IF neg THEN NegInf ELSE PosInf]
     ELSE IF AllDigits(whole) /\ AllDigits(frac) /\ Len(whole) + Len(frac) > 0
             /\ Len(frac) <= 2
     THEN [ok |-> TRUE, f |-> Num(IF neg THEN -mag ELSE mag)]
     ELSE [ok |-> FALSE, f |-> Num(0)]

\* float(x) for a parsed JSON value; [ok |-> FALSE] stands for TypeError or
\* ValueError
PyFloat(x) ==
  CASE x.t = "int" -> [ok |-> TRUE, f |-> Num(100 * x.v)]
    [] x.t = "float" -> [ok |-> TRUE, f |-> Num(x.v)]
    [] x.t = "nan" -> [ok |-> TRUE, f |-> NaN]
    [] x.t = "bool" -> [ok |-> TRUE, f |-> Num(IF x.v THEN 100 ELSE 0)]
    [] x.t = "str" -> FloatOfStr(x.v)
    [] OTHER -> [ok |-> FALSE, f |-> Num(0)]

\* str(x) for the parsed JSON values the model lets a text field hold
PyStr(x) ==
  CASE x.t = "str" -> x.v
    [] x.t = "null" -> <<"N", "o", "n", "e">>
    [] x.t = "bool" -> IF x.v THEN <<"T", "r", "u", "e">> ELSE <<"F", "a", "l", "s", "e">>
    [] x.t = "int" -> IntToStr(x.v)

(***************************************************************************)
(* extract_menu_text_from_image (menu_critic_core.py:328-391).  `answer`   *)
(* is what the provider answers to the one call.                           *)
(***************************************************************************)
vision_messages(image_data_url) ==
  [system |-> "vision system prompt",
   user |-> [menu_text |-> <<>>, mode |-> <<>>, goal |-> "", context |-> <<>>,
             style |-> "extract"],
   image |-> Some(image_data_url)]

VisionExtractionResult(menu_text, confidence, notes, raw) ==
  [menu_text |-> menu_text, confidence |-> confidence, notes |-> notes,
   raw |-> raw, model |-> VISION_MODEL]

\* data.get(key, default)
GetOr(data, k, default) == IF HasKey(data, k) THEN GetKey(data, k) ELSE default

\* lines 372-377
Confidence(data) ==
  LET c == PyFloat(GetOr(data, K_confidence, JInt(0))) IN
  PyMax(Num(0), PyMin(Num(100), IF c.ok THEN c.f ELSE Num(0)))

extract_menu_text_from_image(image_data_url, answer) ==
  LET call == Call(VISION_MODEL, 0, vision_messages(image_data_url), "json_object")
      raw == chat_content_text(answer)
      parsed == Loads(raw)
  IN IF answer.kind # "ok"
     THEN IF is_rate_limit_error(answer.msg)
          THEN [calls |-> <<call>>, result |-> None,
                out |-> Outcome("RateLimitLikeError", None, None, None, Msg("", answer.msg))]
          ELSE [calls |-> <<call>>, result |-> None,
                out |-> Outcome("VisionExtractionError", None, None, None,
                                Msg("Vision request failed: ", answer.msg))]
     ELSE IF ~parsed.ok
     THEN [calls |-> <<call>>, result |-> None,
           out |-> Outcome("VisionExtractionError", None, Some(raw), None,
                           Msg("Vision response was not valid JSON.", <<>>))]
     ELSE IF parsed.val.t # "obj"
     \* line 370: data.get on a list, a number, a string or None
     THEN [calls |-> <<call>>, result |-> None,
           out |-> Outcome("AttributeError", None, None, None,
                           Msg("object has no attribute 'get'", <<>>))]
     ELSE [calls |-> <<call>>,
           result |-> Some(VisionExtractionResult(
                        StripStr(PyStr(GetOr(parsed.val, K_menu_text, JStr(<<>>)))),
                        Confidence(parsed.val),
                        StripStr(PyStr(GetOr(parsed.val, K_notes, JStr(<<>>)))),
                        raw)),
           out |-> Outcome("return", None, Some(raw), None, NoMsg)]

(***************************************************************************)
(* clamp_text_input (menu_critic_core.py:172-177).                         *)
(***************************************************************************)
clamp_text_input(text) ==
  LET cleaned == StripStr(text) IN
  IF Len(cleaned) > MAX_TEXT_CHARS THEN SubSeq(cleaned, 1, MAX_TEXT_CHARS) ELSE cleaned

(***************************************************************************)
(* validate_menu_like_text (menu_critic_core.py:180-251).  The characters  *)
(* of the model are ASCII, where str.isalpha and [A-Za-z] agree and \w is  *)
(* a letter, a digit or the underscore.                                    *)
(***************************************************************************)
IsAlpha(c) == c \in Range(UPPER) \cup Range(LOWER)
IsWordCh(c) == IsAlpha(c) \/ c \in DIGITS \/ c = "_"
IsVowel(c) == LowerCh(c) \in {"a", "e", "i", "o", "u"}
CURRENCY == {"$", "€", "£"}
MENU_WORDS ==
  {<<"m", "e", "n", "u">>, <<"b", "u", "r", "g", "e", "r">>, <<"p", "i", "z", "z", "a">>,
   <<"s", "a", "l", "a", "d">>, <<"d", "r", "i", "n", "k">>,
   <<"a", "p", "p", "e", "t", "i", "z", "e", "r">>, <<"d", "e", "s", "s", "e", "r", "t">>,
   <<"c", "h", "i", "c", "k", "e", "n">>, <<"f", "r", "i", "e", "s">>, <<"s", "o", "u", "p">>,
   <<"s", "a", "n", "d", "w", "i", "c", "h">>, <<"p", "a", "s", "t", "a">>,
   <<"r", "i", "c", "e">>, <<"c", "o", "m", "b", "o">>, <<"a", "d", "d", " ", "o", "n">>,
   <<"a", "d", "d", "o", "n", "s">>}

\* single letters taken for tokens as well
Tokens_Mutant(s) ==
  {<<i, j>> \in (1..Len(s)) \X (1..Len(s)) :
     /\ i <= j
     /\ \A k \in i..j : IsAlpha(s[k])
     /\ (i = 1 \/ ~IsAlpha(s[i - 1]))
     /\ (j = Len(s) \/ ~IsAlpha(s[j + 1]))}
\* re.findall(r"[A-Za-z]{2,}", s): the maximal runs of letters of length >= 2,
\* each as <<first, last>>
Tokens(s) ==
  {<<i, j>> \in (1..Len(s)) \X (1..Len(s)) :
     /\ i < j
     /\ \A k \in i..j : IsAlpha(s[k])
     /\ (i = 1 \/ ~IsAlpha(s[i - 1]))
     /\ (j = Len(s) \/ ~IsAlpha(s[j + 1]))}
\* \b before position i (i = Len(s) + 1: at the end)
WordBoundary(s, i) ==
  (i > 1 /\ IsWordCh(s[i - 1])) # (i <= Len(s) /\ IsWordCh(s[i]))
\* [$...]\s?\d
CurrencyPrice(s) ==
  \E i \in 1..Len(s) :
    /\ s[i] \in CURRENCY
    /\ \/ (i + 1 <= Len(s) /\ s[i + 1] \in DIGITS)
       \/ (i + 2 <= Len(s) /\ IsSpaceCh(s[i + 1]) /\ s[i + 2] \in DIGITS)
\* \b\d{1,3}\.\d{2}\b
DecimalPrice(s) ==
  \E i \in 1..Len(s), k \in 1..3 :
    /\ i + k + 2 <= Len(s)
    /\ WordBoundary(s, i)
    /\ \A d \in i..(i + k - 1) : s[d] \in DIGITS
    /\ s[i + k] = "."
    /\ s[i + k + 1] \in DIGITS /\ s[i + k + 2] \in DIGITS
    /\ WordBoundary(s, i + k + 3)
HasPrice(s) == CurrencyPrice(s) \/ DecimalPrice(s)
\* three line breaks asked for
HasLineBreaks_Mutant(s) == Cardinality({i \in 1..Len(s) : s[i] = "\n"}) >= 3
HasLineBreaks(s) == Cardinality({i \in 1..Len(s) : s[i] = "\n"}) >= 2
HasMenuWords(s) == \E w \in MENU_WORDS : Contains(LowerStr(s), w)

\* [ok |-> FALSE] stands for SuspiciousMenuInputError, with the rule that
\* raised it
Accepted == [ok |-> TRUE, rule |-> "none"]
Suspicious(rule) == [ok |-> FALSE, rule |-> rule]
\* the length rule applied only to a text without a signal
validate_menu_like_text_Mutant(text) ==
  LET candidate == StripStr(text)
      tokens == Tokens(candidate)
      alpha == {i \in 1..Len(candidate) : IsAlpha(candidate[i])}
      vowels == Cardinality({i \in alpha : IsVowel(candidate[i])})
      long == Cardinality({t \in tokens : t[2] - t[1] + 1 >= 9})
      \* vowel_ratio < 0.22 and long_token_ratio > 0.6, without division
      fewVowels == 100 * vowels < 22 * Cardinality(alpha)
      manyLong == 10 * long > 6 * Cardinality(tokens)
      signal == HasPrice(candidate) \/ HasLineBreaks(candidate) \/ HasMenuWords(candidate)
  IN IF Len(candidate) < 20 /\ ~signal THEN Suspicious("too short")
     ELSE IF tokens = {} THEN Suspicious("no readable text")
     ELSE IF ~signal /\ Cardinality(tokens) <= 3 /\ (fewVowels \/ manyLong)
     THEN Suspicious("keyboard warm-up")
     ELSE IF Len(candidate) < 120 /\ ~signal THEN Suspicious("not menu-ish")
     ELSE Accepted

\* the gibberish rule applied up to four tokens
validate_menu_like_text_FourTokens_Mutant(text) ==
  LET candidate == StripStr(text)
      tokens == Tokens(candidate)
      alpha == {i \in 1..Len(candidate) : IsAlpha(candidate[i])}
      vowels == Cardinality({i \in alpha : IsVowel(candidate[i])})
      long == Cardinality({t \in tokens : t[2] - t[1] + 1 >= 9})
      \* vowel_ratio < 0.22 and long_token_ratio > 0.6, without division
      fewVowels == 100 * vowels < 22 * Cardinality(alpha)
      manyLong == 10 * long > 6 * Cardinality(tokens)
      signal == HasPrice(candidate) \/ HasLineBreaks(candidate) \/ HasMenuWords(candidate)
  IN IF Len(candidate) < 20 THEN Suspicious("too short")
     ELSE IF tokens = {} THEN Suspicious("no readable text")
     ELSE IF ~signal /\ Cardinality(tokens) <= 4 /\ (fewVowels \/ manyLong)
     THEN Suspicious("keyboard warm-up")
     ELSE IF Len(candidate) < 120 /\ ~signal THEN Suspicious("not menu-ish")
     ELSE Accepted

validate_menu_like_text(text) ==
  LET candidate == StripStr(text)
      tokens == Tokens(candidate)
      alpha == {i \in 1..Len(candidate) : IsAlpha(candidate[i])}
      vowels == Cardinality({i \in alpha : IsVowel(candidate[i])})
      long == Cardinality({t \in tokens : t[2] - t[1] + 1 >= 9})
      \* vowel_ratio < 0.22 and long_token_ratio > 0.6, without division
      fewVowels == 100 * vowels < 22 * Cardinality(alpha)
      manyLong == 10 * long > 6 * Cardinality(tokens)
      signal == HasPrice(candidate) \/ HasLineBreaks(candidate) \/ HasMenuWords(candidate)
  IN IF Len(candidate) < 20 THEN Suspicious("too short")
     ELSE IF tokens = {} THEN Suspicious("no readable text")
     ELSE IF ~signal /\ Cardinality(tokens) <= 3 /\ (fewVowels \/ manyLong)
     THEN Suspicious("keyboard warm-up")
     ELSE IF Len(candidate) < 120 /\ ~signal THEN Suspicious("not menu-ish")
     ELSE Accepted

(***************************************************************************)
(* preprocess_image_for_groq (menu_critic_core.py:265-316).  An uploaded   *)
(* file is held as its size, whether PIL can open it, and the size of its  *)
(* JPEG encoding at each quality of the ladder (after the conversion to    *)
(* RGB and the 1600 px thumbnail, whose pixels are not modelled).          *)
(***************************************************************************)
QUALITIES == <<90, 85, 78, 72, 65, 58, 50>>
StopIndex_Mutant(jpeg) == 1
\* lines 286-294: the index of the quality the loop stops at
StopIndex(jpeg) ==
  LET i == FirstIndex(Len(QUALITIES), LAMBDA j : jpeg[j] <= TARGET_IMAGE_BYTES) IN
  IF i = 0 THEN Len(QUALITIES) ELSE i
\* the loop run to the lowest quality whatever fits before
preprocess_image_for_groq_Mutant(file) ==
  LET i == Len(QUALITIES)
      none == [image |-> "", bytes |-> 0, quality |-> 0]
      \* line 290: the qualities image.save was called with
      saves == SubSeq(QUALITIES, 1, i)
  IN IF file.size > MAX_IMAGE_UPLOAD_BYTES
     THEN [kind |-> "ValueError", err |-> Msg("Image is too large", <<>>),
           data_url |-> none, meta |-> none, saves |-> <<>>]
     ELSE IF ~file.image
     THEN [kind |-> "Exception", err |-> Msg("cannot identify image file", <<>>),
           data_url |-> none, meta |-> none, saves |-> <<>>]
     ELSE IF file.jpeg[i] > TARGET_IMAGE_BYTES
     THEN [kind |-> "ValueError",
           err |-> Msg("Image is still too large after resize/compression.", <<>>),
           data_url |-> none, meta |-> none, saves |-> saves]
     ELSE [kind |-> "return", err |-> NoMsg,
           data_url |-> [image |-> file.name, bytes |-> file.jpeg[i],
                         quality |-> QUALITIES[i]],
           meta |-> [image |-> file.name, bytes |-> file.jpeg[i],
                     quality |-> QUALITIES[i]],
           saves |-> saves]

\* kind "return" with the data URL and the metadata, or the exception
preprocess_image_for_groq(file) ==
  LET i == StopIndex(file.jpeg)
      none == [image |-> "", bytes |-> 0, quality |-> 0]
      \* line 290: the qualities image.save was called with
      saves == SubSeq(QUALITIES, 1, i)
  IN IF file.size > MAX_IMAGE_UPLOAD_BYTES
     THEN [kind |-> "ValueError", err |-> Msg("Image is too large", <<>>),
           data_url |-> none, meta |-> none, saves |-> <<>>]
     ELSE IF ~file.image
     THEN [kind |-> "Exception", err |-> Msg("cannot identify image file", <<>>),
           data_url |-> none, meta |-> none, saves |-> <<>>]
     ELSE IF file.jpeg[i] > TARGET_IMAGE_BYTES
     THEN [kind |-> "ValueError",
           err |-> Msg("Image is still too large after resize/compression.", <<>>),
           data_url |-> none, meta |-> none, saves |-> saves]
     ELSE [kind |-> "return", err |-> NoMsg,
           data_url |-> [image |-> file.name, bytes |-> file.jpeg[i],
                         quality |-> QUALITIES[i]],
           meta |-> [image |-> file.name, bytes |-> file.jpeg[i],
                     quality |-> QUALITIES[i]],
           saves |-> saves]

(***************************************************************************)
(* Inputs: what the provider may answer.                                   *)
(***************************************************************************)
ERR_RATE_LIMIT ==
  <<"R", "a", "t", "e", " ", "l", "i", "m", "i", "t", " ", "r", "e", "a", "c", "h", "e", "d">>
ERR_429 == <<"E", "r", "r", "o", "r", " ", "c", "o", "d", "e", ":", " ", "4", "2", "9">>
ERR_TOO_MANY ==
  <<"T", "o", "o", " ", "M", "a", "n", "y", " ", "R", "e", "q", "u", "e", "s", "t", "s">>
ERR_SCHEMA ==
  <<"j", "s", "o", "n", "_", "s", "c", "h", "e", "m", "a", " ", "u", "n", "s", "u", "p", "p", "o", "r", "t", "e", "d">>
ERR_TIMEOUT ==
  <<"C", "o", "n", "n", "e", "c", "t", "i", "o", "n", " ", "t", "i", "m", "e", "d", " ", "o", "u", "t">>
\* close to the three phrases, and none of them
ERR_NEAR_MISS ==
  <<"r", "a", "t", "e", "-", "l", "i", "m", "i", "t", " ", "4", "2", ".", "9", " ", "t", "o", "o", " ", "m", "a", "n", "y">>
ErrorMessages == {ERR_RATE_LIMIT, ERR_429, ERR_TOO_MANY, ERR_SCHEMA, ERR_TIMEOUT, ERR_NEAR_MISS}

K_extra == <<"e", "x", "t", "r", "a">>
TXT == JStr(<<"a">>)

\* a critique of the declared shape
GoodScores ==
  JObj(<<<<K_clarity, JInt(70)>>, <<K_pricing_psychology, JInt(0)>>,
         <<K_upsell_potential, JInt(100)>>, <<K_menu_structure, JInt(55)>>,
         <<K_dietary_signals, JInt(40)>>>>)
GoodRevenue ==
  JObj(<<<<K_conversion, JArr(<<TXT>>)>>, <<K_aov, JArr(<<>>)>>, <<K_margin, JArr(<<TXT, TXT>>)>>>>)
GoodRewrite ==
  JObj(<<<<K_original, TXT>>, <<K_rewritten, TXT>>, <<K_why_it_helps, TXT>>>>)
GoodAbTest ==
  JObj(<<<<K_hypothesis, TXT>>, <<K_variant_a, TXT>>, <<K_variant_b, TXT>>,
         <<K_success_metric, TXT>>>>)
GoodCritique ==
  JObj(<<<<K_scores, GoodScores>>,
         <<K_top_5_changes, JArr(<<TXT, TXT>>)>>,
         <<K_revenue_levers, GoodRevenue>>,
         <<K_rewrite_examples, JArr(<<GoodRewrite>>)>>,
         <<K_ab_tests, JArr(<<GoodAbTest>>)>>,
         <<K_red_flags, JArr(<<TXT>>)>>>>)

\* d with key k set to val / with key k removed
With(d, k, val) == JObj(DictPut(d.v, k, val))
Without(d, k) == JObj(SelectSeq(d.v, LAMBDA pair : pair[1] # k))
Repeat(x, n) == [i \in 1..n |-> x]

\* the largest list of changes the provider is taken to send
MaxChanges == 6

\* critiques that break the shape in one place, and critiques at its edges
Critiques ==
  <<GoodCritique>>
  \o [i \in 1..Len(TOP_LEVEL_KEYS) |-> Without(GoodCritique, TOP_LEVEL_KEYS[i])]
  \o [i \in 1..Len(SCORE_KEYS) |->
        With(GoodCritique, K_scores, Without(GoodScores, SCORE_KEYS[i]))]
  \o <<With(GoodCritique, K_extra, TXT),
       With(GoodCritique, K_scores, With(GoodScores, K_extra, JInt(1))),
       With(GoodCritique, K_revenue_levers, With(GoodRevenue, K_extra, JArr(<<>>))),
       With(GoodCritique, K_rewrite_examples, JArr(<<With(GoodRewrite, K_extra, TXT)>>)),
       With(GoodCritique, K_ab_tests, JArr(<<GoodAbTest, With(GoodAbTest, K_extra, TXT)>>))>>
  \o [i \in 1..8 |->
        With(GoodCritique, K_scores,
             With(GoodScores, K_pricing_psychology,
                  <<JStr(<<"5", "0">>), JFloat(5000), JFloat(5050), JBool(TRUE),
                    JBool(FALSE), JNull, JInt(101), JInt(-1)>>[i]))]
  \o [n \in 1..(MaxChanges + 1) |->
        With(GoodCritique, K_top_5_changes, JArr(Repeat(TXT, n - 1)))]
  \o <<JArr(<<GoodCritique>>),
       With(GoodCritique, K_top_5_changes, JArr(<<TXT, JInt(1)>>)),
       With(GoodCritique, K_revenue_levers, Without(GoodRevenue, K_margin)),
       With(GoodCritique, K_rewrite_examples, JArr(<<Without(GoodRewrite, K_rewritten)>>)),
       With(GoodCritique, K_ab_tests, JArr(<<TXT>>)),
       With(GoodCritique, K_red_flags, JNull)>>

\* "{not json"
NOT_JSON == <<Tk("{"), Tk("word"), WS, Tk("word")>>

\* bodies: each critique as json.dumps writes it, some with whitespace around
\* them or without any, and bodies that are not JSON
Bodies ==
  {dumps_pretty_json(Critiques[i]) : i \in 1..Len(Critiques)}
  \cup {<<WS>> \o dumps_pretty_json(Critiques[i]) \o <<WS>> : i \in 1..2}
  \cup {NoWs(dumps_pretty_json(Critiques[i])) : i \in 1..2}
  \cup {NOT_JSON, <<WS>> \o NOT_JSON, NOT_JSON \o <<WS>>, <<>>, <<WS>>,
        dumps_pretty_json(GoodCritique) \o <<Tk("}")>>,
        <<Tk("["), TInt(1), Tk(","), Tk("]")>>}

Responses ==
  {Returns(Some(b)) : b \in Bodies} \cup {Returns(None)}
  \cup {Raises(m) : m \in ErrorMessages}

\* menu texts
SCENARIO_MENU ==
  <<"G", "r", "i", "l", "l", "e", "d", " ", "C", "h", "i", "c", "k", "e", "n", " ", "C", "a", "e", "s", "a", "r", " ", "S", "a", "l", "a", "d", " ", "-", " ", "$", "1", "4", ".", "5", "0", "\n", "M", "a", "r", "g", "h", "e", "r", "i", "t", "a", " ", "P", "i", "z", "z", "a", " ", "-", " ", "$", "1", "2", ".", "0", "0", "\n">>
KEYBOARD_MASH == <<"d", "f", "d", "s", "f", "s", "d", "g">>
LONG_MASH ==
  <<"d", "f", "d", "s", "f", "s", "d", "g", " ", "q", "w", "r", "t", "p", "l", "k", "j", " ", "z", "x", "c", "v", "b", "n", "m", "q">>
FIVE_CHARS == <<"P", "i", "z", "z", "a">>
BLURRY == <<"b", "l", "u", "r", "r", "y", " ", "p", "h", "o", "t", "o">>

\* what a vision answer may hold
VisionAnswer(menu_text, confidence, notes) ==
  JObj(<<<<K_menu_text, menu_text>>, <<K_confidence, confidence>>, <<K_notes, notes>>>>)
GoodVision == VisionAnswer(JStr(SCENARIO_MENU), JFloat(90), JStr(<<>>))
VisionAnswers ==
  [i \in 1..15 |->
     With(GoodVision, K_confidence,
          <<JFloat(90), JFloat(45), JFloat(44), JFloat(20), JFloat(150), JFloat(-20),
            JInt(1), JInt(2), JStr(<<"0", ".", "9">>), JStr(<<"h", "i", "g", "h">>),
            JStr(<<"n", "a", "n">>), JNull, JBool(TRUE), JArr(<<JFloat(90)>>), JNaN>>[i])]
  \o [i \in 1..5 |->
        With(GoodVision, K_menu_text,
             <<JStr(LONG_MASH), JStr(KEYBOARD_MASH), JStr(FIVE_CHARS), JNull,
               JStr(<<" ">> \o LONG_MASH \o <<"\n">>)>>[i])]
  \o <<Without(GoodVision, K_confidence),
       Without(GoodVision, K_menu_text),
       VisionAnswer(JStr(FIVE_CHARS), JFloat(20), JStr(BLURRY)),
       VisionAnswer(JStr(FIVE_CHARS), JFloat(20), JStr(<<>>)),
       VisionAnswer(JStr(SCENARIO_MENU), JFloat(20), JStr(BLURRY)),
       JArr(<<GoodVision>>), JInt(5), JStr(SCENARIO_MENU), JNull>>
VisionBodies ==
  {dumps_pretty_json(VisionAnswers[i]) : i \in 1..Len(VisionAnswers)}
  \cup {NOT_JSON, <<>>, <<WS>> \o dumps_pretty_json(GoodVision) \o <<WS>>}
VisionResponses ==
  {Returns(Some(b)) : b \in VisionBodies} \cup {Returns(None)}
  \cup {Raises(m) : m \in ErrorMessages}

\* an image payload as preprocess_image_for_groq returns it
SAMPLE_DATA_URL == [image |-> "menu.jpg", bytes |-> 250000, quality |-> 90]

(***************************************************************************)
(* Inputs: what the user may enter.                                        *)
(***************************************************************************)
MODE_FIX == <<"F", "i", "x", " ", "m", "y", " ", "m", "e", "n", "u">>
MODE_ROAST == <<"R", "o", "a", "s", "t", " ", "m", "y", " ", "m", "e", "n", "u">>
Modes == {MODE_FIX, MODE_ROAST}
Goals == {"Increase conversion", "Increase AOV", "Improve experience & retention"}

(***************************************************************************)
(* State.  The first eight variables are st.session_state                  *)
(* (pages/01_Menu_Critic.py:194-204); `now` is time.time(); the rest       *)
(* records the latest request: what was asked, what the provider           *)
(* answered, the calls issued, what extract_menu_text_from_image and         *)
(* analyze_menu_text gave, and how the request ended.                      *)
(***************************************************************************)
VARIABLES last_request_ts, last_result, last_result_json_text,
          last_invalid_json_raw, last_invalid_json_error,
          last_critique_request, queued_retry, last_uploaded_image,
          now, run, provider, calls, vision, analysis, outcome

session == <<last_request_ts, last_result, last_result_json_text,
             last_invalid_json_raw, last_invalid_json_error,
             last_critique_request, queued_retry, last_uploaded_image>>
vars == <<last_request_ts, last_result, last_result_json_text,
          last_invalid_json_raw, last_invalid_json_error,
          last_critique_request, queued_retry, last_uploaded_image,
          now, run, provider, calls, vision, analysis, outcome>>

Pending == Outcome("pending", None, None, None, NoMsg)

\* _init_state (pages/01_Menu_Critic.py:194-204)
InitSession ==
  /\ last_request_ts = 0
  /\ last_result = None
  /\ last_result_json_text = <<>>
  /\ last_invalid_json_raw = <<>>
  /\ last_invalid_json_error = NoMsg
  /\ last_critique_request = None
  /\ queued_retry = FALSE
  /\ last_uploaded_image = None

(***************************************************************************)
(* The session flow of pages/01_Menu_Critic.py.  Time is counted in ticks  *)
(* of half a millisecond, so that the 0.999 of _enforce_rate_limit is a    *)
(* whole number of ticks and an instant may fall between two milliseconds. *)
(***************************************************************************)
TicksPerSecond == 2 * 1000
COOLDOWN == REQUEST_COOLDOWN_SECONDS * TicksPerSecond
\* time.time() when the session starts
Epoch == 1000 * TicksPerSecond

\* the timestamp moved by a rejected request as well
enforce_rate_limit_Restart_Mutant(ts, t) ==
  LET delta == t - ts IN
  IF delta < COOLDOWN
  THEN [ok |-> FALSE, ts |-> t,
        wait |-> (COOLDOWN - delta + (999 * TicksPerSecond) \div 1000) \div TicksPerSecond]
  ELSE [ok |-> TRUE, ts |-> t, wait |-> 0]
\* the timestamp left alone by an accepted request
enforce_rate_limit_Unset_Mutant(ts, t) ==
  LET delta == t - ts IN
  IF delta < COOLDOWN
  THEN [ok |-> FALSE, ts |-> ts,
        wait |-> (COOLDOWN - delta + (999 * TicksPerSecond) \div 1000) \div TicksPerSecond]
  ELSE [ok |-> TRUE, ts |-> ts, wait |-> 0]
\* _enforce_rate_limit (lines 389-396): at time t, with the stored timestamp ts
enforce_rate_limit(ts, t) ==
  LET delta == t - ts IN
  IF delta < COOLDOWN
  THEN [ok |-> FALSE, ts |-> ts,
        wait |-> (COOLDOWN - delta + (999 * TicksPerSecond) \div 1000) \div TicksPerSecond]
  ELSE [ok |-> TRUE, ts |-> t, wait |-> 0]

\* a critique request (lines 324-330 and 377-386); a request built from text
\* has no vision fields
CritiqueRequest(menu_text, mode, goal, context, source, confidence, notes, meta) ==
  [menu_text |-> menu_text, mode |-> mode, goal |-> goal, context |-> context,
   source |-> source, vision_confidence |-> confidence, vision_notes |-> notes,
   image_meta |-> meta]

Raised(kind, err, raw) == Outcome(kind, None, raw, None, err)

\* what _build_critique_request ends with: the request or the exception,
\* the calls issued, the extraction result, and the image stored in the
\* session (lines 336-339)
Built(request, out, cs, v, up) ==
  [request |-> request, out |-> out, calls |-> cs, vision |-> v, uploaded |-> up]

\* the gate with `and` in the place of `or`
BelowThreshold_Mutant(result, extracted_text) ==
  /\ FloatLt(result.confidence, Num(MIN_VISION_CONFIDENCE))
  /\ Len(StripStr(extracted_text)) < MIN_EXTRACTED_TEXT_CHARS
\* lines 352-355: the gate on the extraction result
BelowThreshold(result, extracted_text) ==
  \/ FloatLt(result.confidence, Num(MIN_VISION_CONFIDENCE))
  \/ Len(StripStr(extracted_text)) < MIN_EXTRACTED_TEXT_CHARS

\* lines 350-386: the extraction ended as e
build_from_extraction(w, file, pre, e) ==
  LET result == The(e.result)
      extracted_text == clamp_text_input(result.menu_text)
  IN IF e.out.kind = "AttributeError"
     THEN Built(None, Raised("Exception", e.out.err, None), e.calls, None, Some(file.name))
     ELSE IF e.out.kind # "return"
     THEN Built(None, e.out, e.calls, None, Some(file.name))
     ELSE IF BelowThreshold(result, extracted_text)
     THEN Built(None,
                Raised("VisionExtractionError",
                       Msg("Please try a clearer photo or paste the menu text instead.",
                           result.notes),
                       Some(result.raw)),
                e.calls, e.result, Some(file.name))
     ELSE Built(Some(CritiqueRequest(extracted_text, w.mode, w.goal, StripStr(w.context),
                                     "image", Some(result.confidence),
                                     Some(result.notes), Some(pre.meta))),
                Pending, e.calls, e.result, Some(file.name))

\* lines 336-349: the image was preprocessed as pre
build_from_image(w, file, pre, answer) ==
  IF pre.kind # "return"
  THEN Built(None, Raised(pre.kind, pre.err, None), <<>>, None, Some(file.name))
  ELSE build_from_extraction(w, file, pre,
                             extract_menu_text_from_image(pre.data_url, answer))

\* lines 312-330: the text was clamped as menu_text
build_from_text(w, menu_text, uploaded) ==
  IF menu_text = <<>>
  THEN Built(None,
             Raised("ValueError", Msg("Please paste menu text before analyzing.", <<>>),
                    None),
             <<>>, None, uploaded)
  ELSE Built(Some(CritiqueRequest(menu_text, w.mode, w.goal, StripStr(w.context), "text",
                                  None, None, None)),
             Pending, <<>>, None, uploaded)

\* _build_critique_request (lines 303-386).  w holds the widgets' values,
\* `answer` is what the provider answers to the vision call if it is issued,
\* `uploaded` the image the session holds before the call.
build_critique_request(w, answer, uploaded) ==
  IF w.input_mode = "Paste menu text"
  THEN build_from_text(w, clamp_text_input(w.menu_text_input), uploaded)
  ELSE IF w.uploaded_image = None
  THEN Built(None,
             Raised("ValueError", Msg("Please upload a menu image before analyzing.", <<>>),
                    None),
             <<>>, None, uploaded)
  ELSE build_from_image(w, The(w.uploaded_image),
                        preprocess_image_for_groq(The(w.uploaded_image)), answer)

\* line 522: result, _raw_json = analyze_menu_text(...) takes a sequence of
\* exactly two values; any other length raises ValueError
ReturnValue(out) == <<The(out.value), The(out.raw), The(out.meta)>>
UnpacksIntoTwo(values) == Len(values) = 2

(***************************************************************************)
(* Inputs of the session.                                                  *)
(***************************************************************************)
IMG_OK ==
  [name |-> "menu.jpg", size |-> 2000000, image |-> TRUE,
   jpeg |-> <<900000, 800000, 700000, 600000, 500000, 400000, 300000>>]
IMG_TOO_LARGE ==
  [name |-> "poster.png", size |-> MAX_IMAGE_UPLOAD_BYTES + 1, image |-> TRUE,
   jpeg |-> <<900000, 800000, 700000, 600000, 500000, 400000, 300000>>]
Uploads == {None, Some(IMG_OK), Some(IMG_TOO_LARGE)}
\* a pasted text of 12001 characters whose 12000th character is a space
LONG_MENU == <<"m", "e", "n", "u", " ">> \o [i \in 1..(MAX_TEXT_CHARS - 6) |-> "a"] \o <<" ", "b">>
TextInputs == {<<>>, KEYBOARD_MASH, SCENARIO_MENU, LONG_MENU}
SessionGoals == {"Increase conversion"}
Contexts == {<<>>}
\* the widgets' values at a run; a text typed while the image mode is chosen,
\* or a file left while the text mode is chosen, is not read by the run
Widgets ==
  [input_mode : {"Paste menu text"}, menu_text_input : TextInputs,
   uploaded_image : {None}, mode : Modes, goal : SessionGoals, context : Contexts]
  \cup
  [input_mode : {"Upload menu image"}, menu_text_input : {<<>>},
   uploaded_image : Uploads, mode : Modes, goal : SessionGoals, context : Contexts]
NoWidgets ==
  [input_mode |-> "", menu_text_input |-> <<>>, uploaded_image |-> None,
   mode |-> <<>>, goal |-> "", context |-> <<>>]

GOOD_BODY == dumps_pretty_json(GoodCritique)
SessionPrimary ==
  {Returns(Some(GOOD_BODY)), Returns(Some(<<WS>> \o NOT_JSON)), Returns(None),
   Raises(ERR_429), Raises(ERR_SCHEMA)}
SessionFallback ==
  {Returns(Some(GOOD_BODY)), Returns(Some(NOT_JSON)), Raises(ERR_TIMEOUT)}
SessionVision ==
  {Returns(Some(dumps_pretty_json(GoodVision))),
   Returns(Some(dumps_pretty_json(With(GoodVision, K_menu_text, JStr(LONG_MASH))))),
   Returns(Some(dumps_pretty_json(With(GoodVision, K_confidence, JFloat(44))))),
   Returns(Some(dumps_pretty_json(With(GoodVision, K_confidence, JFloat(45))))),
   Returns(Some(dumps_pretty_json(With(GoodVision, K_confidence, JNaN)))),
   Returns(Some(dumps_pretty_json(With(GoodVision, K_menu_text, JStr(FIVE_CHARS))))),
   Returns(Some(dumps_pretty_json(VisionAnswer(JStr(FIVE_CHARS), JFloat(20), JStr(BLURRY))))),
   Returns(Some(NOT_JSON)), Returns(Some(dumps_pretty_json(JArr(<<>>)))),
   Raises(ERR_RATE_LIMIT)}

\* the times that may pass between two runs of the script, in ticks:
\* 2.9995 s, 7 s and 10 s
Elapsed == {5999, 14000, 20000}
\* the session is followed for this many seconds
MaxSeconds == 13

(***************************************************************************)
(* One run of the page script (lines 477-571).  The user's click decides   *)
(* analyze_clicked and retry_clicked; t is time.time() during the run.     *)
(***************************************************************************)
\* lines 481-489
RequestToRun(analyze_clicked, retry_clicked) ==
  IF queued_retry /\ last_critique_request # None THEN "retry"
  ELSE IF analyze_clicked THEN "new"
  ELSE IF retry_clicked /\ last_critique_request # None THEN "retry"
  ELSE "none"

\* lines 522-567: analyze_menu_text ended as a
AfterAnalysis(type, early, a) ==
  /\ calls' = early \o a.calls
  /\ analysis' = Some(a.out)
  /\ IF a.out.kind = "return"
     THEN IF UnpacksIntoTwo(ReturnValue(a.out))
          THEN \* lines 530-534
               /\ outcome' = Outcome("success", a.out.value, a.out.raw, a.out.meta, NoMsg)
               /\ last_result' = a.out.value
               /\ last_result_json_text' = dumps_pretty_json(The(a.out.value))
               /\ last_invalid_json_raw' = <<>>
               /\ last_invalid_json_error' = NoMsg
          ELSE \* line 522 raises, caught at line 536
               /\ outcome' = Raised("ValueError",
                                    Msg("too many values to unpack (expected 2)", <<>>),
                                    None)
               /\ last_invalid_json_raw' =
                    IF type = "new" THEN <<>> ELSE last_invalid_json_raw
               /\ last_invalid_json_error' =
                    IF type = "new" THEN NoMsg ELSE last_invalid_json_error
               /\ UNCHANGED <<last_result, last_result_json_text>>
     ELSE IF a.out.kind = "InvalidJSONResponse"
     THEN \* lines 548-551
          /\ outcome' = a.out
          /\ last_invalid_json_raw' = The(a.out.raw)
          /\ last_invalid_json_error' = a.out.err
          /\ UNCHANGED <<last_result, last_result_json_text>>
     ELSE \* lines 560-567
          /\ outcome' = a.out
          /\ last_invalid_json_raw' = IF type = "new" THEN <<>> ELSE last_invalid_json_raw
          /\ last_invalid_json_error' =
               IF type = "new" THEN NoMsg ELSE last_invalid_json_error
          /\ UNCHANGED <<last_result, last_result_json_text>>

\* lines 514-528: the request to analyze is known
Critique(type, request, early, primary, fallback) ==
  /\ last_critique_request' = Some(request)
  /\ AfterAnalysis(type, early,
                   analyze_menu_text(request.menu_text, request.mode, request.goal,
                                     request.context, primary, fallback))

\* lines 504-517: _build_critique_request ended as built
AfterBuild(built, primary, fallback) ==
  /\ vision' = built.vision
  /\ last_uploaded_image' = built.uploaded
  /\ IF built.request = None
     THEN /\ outcome' = built.out
          /\ calls' = built.calls
          /\ analysis' = None
          /\ UNCHANGED <<last_result, last_result_json_text, last_invalid_json_raw,
                         last_invalid_json_error, last_critique_request>>
     ELSE Critique("new", The(built.request), built.calls, primary, fallback)

\* a retry that takes the mode from the widgets
AfterLimit_Mutant(type, w, limit, answer, primary, fallback) ==
  /\ last_request_ts' = limit.ts
  /\ IF ~limit.ok
     THEN \* line 395, caught at line 536
          /\ outcome' = Raised("ValueError",
                               Msg("Please wait {wait}s before sending another request.",
                                   IntToStr(limit.wait)), None)
          /\ calls' = <<>> /\ vision' = None /\ analysis' = None
          /\ UNCHANGED <<last_result, last_result_json_text, last_invalid_json_raw,
                         last_invalid_json_error, last_critique_request,
                         last_uploaded_image>>
     ELSE IF type = "new"
     THEN AfterBuild(build_critique_request(w, answer, last_uploaded_image),
                     primary, fallback)
     ELSE /\ vision' = None
          /\ UNCHANGED last_uploaded_image
          /\ Critique("retry", [The(last_critique_request) EXCEPT !.mode = w.mode], <<>>,
                   primary, fallback)

\* lines 494-571: _enforce_rate_limit ended as limit
AfterLimit(type, w, limit, answer, primary, fallback) ==
  /\ last_request_ts' = limit.ts
  /\ IF ~limit.ok
     THEN \* line 395, caught at line 536
          /\ outcome' = Raised("ValueError",
                               Msg("Please wait {wait}s before sending another request.",
                                   IntToStr(limit.wait)), None)
          /\ calls' = <<>> /\ vision' = None /\ analysis' = None
          /\ UNCHANGED <<last_result, last_result_json_text, last_invalid_json_raw,
                         last_invalid_json_error, last_critique_request,
                         last_uploaded_image>>
     ELSE IF type = "new"
     THEN AfterBuild(build_critique_request(w, answer, last_uploaded_image),
                     primary, fallback)
     ELSE /\ vision' = None
          /\ UNCHANGED last_uploaded_image
          /\ Critique("retry", The(last_critique_request), <<>>, primary, fallback)

\* lines 481-571, for request_to_run = type
Request(type, w, t, answer, primary, fallback) ==
  /\ run' = [type |-> type, widgets |-> w, at |-> t]
  /\ provider' = [vision |-> answer, primary |-> primary, fallback |-> fallback]
  /\ queued_retry' = IF queued_retry /\ last_critique_request # None
                     THEN FALSE ELSE queued_retry
  /\ AfterLimit(type, w, enforce_rate_limit(last_request_ts, t), answer, primary, fallback)

\* a run in which no request is made
NoRequest(t) ==
  /\ run' = [type |-> "none", widgets |-> NoWidgets, at |-> t]
  /\ provider' = [vision |-> NoCall, primary |-> NoCall, fallback |-> NoCall]
  /\ calls' = <<>> /\ vision' = None /\ analysis' = None
  /\ outcome' = Outcome("none", None, None, None, NoMsg)
  /\ UNCHANGED session

\* the provider's answers, each drawn only if its call is issued
Extracts(type, w, allowed) ==
  /\ allowed /\ type = "new" /\ w.input_mode = "Upload menu image"
  /\ w.uploaded_image # None
  /\ preprocess_image_for_groq(The(w.uploaded_image)).kind = "return"
Analyzes(type, w, allowed, answer) ==
  /\ allowed
  /\ type = "new" => build_critique_request(w, answer, last_uploaded_image).request # None
AnswersOf(issued, answers) == IF issued THEN answers ELSE {NoCall}
WithAnswers(type, w, t, allowed) ==
  \E answer \in AnswersOf(Extracts(type, w, allowed), SessionVision) :
    \E primary \in AnswersOf(Analyzes(type, w, allowed, answer), SessionPrimary) :
      \E fallback \in AnswersOf(NeedsFallback(primary), SessionFallback) :
        Request(type, w, t, answer, primary, fallback)

ScriptRun(analyze_clicked, retry_clicked, w, t) ==
  /\ t <= Epoch + MaxSeconds * TicksPerSecond
  /\ now' = t
  /\ LET type == RequestToRun(analyze_clicked, retry_clicked) IN
     IF type = "none" THEN NoRequest(t)
     ELSE WithAnswers(type, w, t, enforce_rate_limit(last_request_ts, t).ok)

\* line 478: the "Retry last analysis" button is on the page
RetryShown == last_invalid_json_raw # <<>>

\* the user presses "Analyze" (line 475)
ClickAnalyze ==
  \E d \in Elapsed, w \in Widgets : ScriptRun(TRUE, FALSE, w, now + d)

\* the user presses "Retry last analysis", which is shown while
\* last_invalid_json_raw is not empty (lines 478-479)
ClickRetry ==
  /\ RetryShown
  /\ \E d \in Elapsed, w \in Widgets : ScriptRun(FALSE, TRUE, w, now + d)

\* any other interaction reruns the script with no button pressed.  This
\* includes a press of the inline "Retry" (line 556): that button exists
\* only inside the handler of a failed request, which the rerun does not
\* enter, so the press is not seen and queued_retry stays unset.
Rerun ==
  \E d \in Elapsed, w \in Widgets : ScriptRun(FALSE, FALSE, w, now + d)

Init ==
  /\ InitSession
  /\ now = Epoch
  /\ run = [type |-> "none", widgets |-> NoWidgets, at |-> Epoch]
  /\ provider = [vision |-> NoCall, primary |-> NoCall, fallback |-> NoCall]
  /\ calls = <<>>
  /\ vision = None
  /\ analysis = None
  /\ outcome = Outcome("none", None, None, None, NoMsg)

Next == ClickAnalyze \/ ClickRetry \/ Rerun
Spec == Init /\ [][Next]_vars

(***************************************************************************)
(* SpecCore: the two provider-facing functions of the core alone.  Init    *)
(* draws one invocation, of analyze_menu_text or of                        *)
(* extract_menu_text_from_image, with the answers the provider will give;  *)
(* the action applies the function.                                        *)
(***************************************************************************)
SAMPLE_MENU == <<"P", "i", "z", "z", "a", " ", "$", "1", "2", ".", "0", "0">>

CoreInit ==
  /\ InitSession
  /\ now = 0
  /\ calls = <<>>
  /\ vision = None
  /\ analysis = None
  /\ outcome = Pending
  /\ \/ /\ \E mode \in Modes, goal \in Goals :
             run = [type |-> "analyze", menu_text |-> SAMPLE_MENU, mode |-> mode,
                    goal |-> goal, context |-> <<>>]
        /\ \E primary \in Responses :
             \E fallback \in (IF NeedsFallback(primary) THEN Responses ELSE {NoCall}) :
               provider = [vision |-> NoCall, primary |-> primary, fallback |-> fallback]
     \/ /\ run = [type |-> "extract", image_data_url |-> SAMPLE_DATA_URL]
        /\ \E answer \in VisionResponses :
             provider = [vision |-> answer, primary |-> NoCall, fallback |-> NoCall]

AnalyzeCall ==
  /\ outcome.kind = "pending"
  /\ run.type = "analyze"
  /\ LET a == analyze_menu_text(run.menu_text, run.mode, run.goal, run.context,
                                provider.primary, provider.fallback)
     IN /\ calls' = a.calls
        /\ analysis' = Some(a.out)
        /\ outcome' = a.out
  /\ UNCHANGED <<session, now, run, provider, vision>>

ExtractCall ==
  /\ outcome.kind = "pending"
  /\ run.type = "extract"
  /\ LET e == extract_menu_text_from_image(run.image_data_url, provider.vision)
     IN /\ calls' = e.calls
        /\ vision' = e.result
        /\ outcome' = e.out
  /\ UNCHANGED <<session, now, run, provider, analysis>>

CoreNext == AnalyzeCall \/ ExtractCall
SpecCore == CoreInit /\ [][CoreNext]_vars

(***************************************************************************)
(* SpecInput: one call of validate_menu_like_text, of clamp_text_input or  *)
(* of preprocess_image_for_groq, on an input drawn from a catalogue.       *)
(***************************************************************************)
CONSONANTS == <<"q", "w", "r", "t", "p", "l", "k", "j", "z", "x">>
Pieces == <<KEYBOARD_MASH, CONSONANTS, FIVE_CHARS, <<"$", "5">>, <<" ">>, <<"\n">>>>
\* the texts put together from at most this many pieces
MaxPieces == 3
RECURSIVE Join(_)
Join(ps) == IF ps = <<>> THEN <<>> ELSE Pieces[Head(ps)] \o Join(Tail(ps))
PieceTexts ==
  {Join(ps) : ps \in UNION {[1..n -> 1..Len(Pieces)] : n \in 0..MaxPieces}}
PLAIN_WORDS ==
  <<"g", "o", "o", "d", " ", "f", "o", "o", "d", " ", "i", "s", " ", "h", "e", "r", "e", " ", "t", "o", "d", "a", "y", " ">>
LongTexts ==
  {<<"\n", "\n">> \o LONG_MASH, LONG_MASH \o <<"\n", "\n">>,
   KEYBOARD_MASH \o <<"\n">> \o CONSONANTS \o <<"\n">> \o KEYBOARD_MASH,
   LONG_MASH, SCENARIO_MENU, PLAIN_WORDS, PLAIN_WORDS \o LONG_MASH,
   PLAIN_WORDS \o PLAIN_WORDS \o PLAIN_WORDS \o PLAIN_WORDS \o PLAIN_WORDS,
   <<"1", "2", ".", "5", "0", " ">> \o LONG_MASH,
   <<"1", "2", "3", "4", ".", "5", "6", "7", " ">> \o LONG_MASH,
   <<"$", " ", " ", "5", " ">> \o LONG_MASH,
   <<"1", "2", "3", "4", "5", "6", "7", "8", "9", "0", "1", "2", "3", "4", "5", "6", "7", "8", "9", "0", "1", "2">>}
\* texts of 20 characters and more without two letters in a row
PRICE_LINE == <<"$", "5", "\n">>
DECIMAL_PRICE == <<"1", "2", ".", "5", "0", " ">>
NoTokenTexts ==
  {PRICE_LINE \o PRICE_LINE \o PRICE_LINE \o PRICE_LINE \o PRICE_LINE \o PRICE_LINE \o <<"$", "5">>,
   DECIMAL_PRICE \o DECIMAL_PRICE \o DECIMAL_PRICE \o DECIMAL_PRICE,
   <<"a", " ", "1", " ", "b", " ", "2", " ", "c", " ", "3", " ", "d", " ", "4", " ", "e", " ", "$", "5", " ", "f">>,
   <<"1", "2", "3", "4", "5", "6", "7", "8", "9", "0", "\n", "1", "2", "3", "4", "5", "6", "7", "8", "9", "0", "\n", "1", "2">>}
\* texts without a signal around the thresholds of the last two rules:
\* a few words, then digits up to the length wanted
Sevens(n) == [i \in 1..n |-> "7"]
Padded(words, length) == words \o Sevens(length - Len(words))
GOOD_FOOD == <<"g", "o", "o", "d", " ", "f", "o", "o", "d", " ">>
TWO_MASHES == <<"q", "w", "r", "t", " ", "p", "l", "k", "j", " ">>
FOUR_MASHES == <<"q", "w", " ", "r", "t", " ", "p", "l", " ", "k", "j", " ">>
THREE_MASHES == <<"q", "w", " ", "r", "t", " ", "p", "l", " ">>
LONG_WORD == <<"g", "o", "o", "d", "f", "o", "o", "d", "i", "s", " ">>
\* 46 letters with v vowels, then two tokens of two consonants: 50 letters
FiftyLetters(v) ==
  [i \in 1..46 |-> IF i <= v THEN "a" ELSE "q"] \o <<" ", "q", "w", " ", "q", "w", " ">>
ThresholdTexts ==
  {Padded(GOOD_FOOD, 120), Padded(GOOD_FOOD, 119), Padded(TWO_MASHES, 120),
   Padded(FOUR_MASHES, 120), Padded(FOUR_MASHES, 119), Padded(THREE_MASHES, 120),
   Padded(LONG_WORD \o LONG_WORD \o GOOD_FOOD, 120),
   Padded(LONG_WORD \o LONG_WORD \o SubSeq(GOOD_FOOD, 1, 5), 120),
   Padded(LONG_WORD \o GOOD_FOOD, 120),
   Padded(FiftyLetters(11), 120), Padded(FiftyLetters(10), 120),
   Padded(FiftyLetters(11), 60)}
GuardTexts == PieceTexts \cup LongTexts \cup NoTokenTexts \cup ThresholdTexts

\* texts around the limit of clamp_text_input
Fill(n) == [i \in 1..n |-> "a"]
ClampTexts ==
  {<<>>, <<" ", "\n">>, <<" ">> \o FIVE_CHARS \o <<" ">>, SCENARIO_MENU,
   Fill(MAX_TEXT_CHARS), Fill(MAX_TEXT_CHARS + 1),
   <<" ">> \o Fill(MAX_TEXT_CHARS) \o <<"\n">>,
   Fill(MAX_TEXT_CHARS) \o <<" ", "b">>,
   Fill(MAX_TEXT_CHARS - 1) \o <<" ", "b">>,
   Fill(MAX_TEXT_CHARS - 2) \o <<" ", "\n", "b">>}

\* uploads for preprocess_image_for_groq: JPEG sizes fall with the quality
LADDER_SMALL == IMG_OK.jpeg
LADDER_THIRD == <<4000000, 3600000, TARGET_IMAGE_BYTES, 3400000, 3300000, 3200000, 3100000>>
LADDER_LAST == <<5000000, 4800000, 4500000, 4200000, 4000000, 3600000, TARGET_IMAGE_BYTES>>
LADDER_OVER == <<5000000, 4800000, 4500000, 4200000, 4000000, 3600000, TARGET_IMAGE_BYTES + 1>>
LADDER_HUGE == <<9000000, 8800000, 8500000, 8200000, 8000000, 7600000, 7000000>>
ImageFiles ==
  {[name |-> "upload.jpg", size |-> size, image |-> image, jpeg |-> jpeg] :
     size \in {IMG_OK.size, MAX_IMAGE_UPLOAD_BYTES, MAX_IMAGE_UPLOAD_BYTES + 1},
     image \in BOOLEAN,
     jpeg \in {LADDER_SMALL, LADDER_THIRD, LADDER_LAST, LADDER_OVER, LADDER_HUGE}}

InputInit ==
  /\ InitSession
  /\ now = 0
  /\ provider = [vision |-> NoCall, primary |-> NoCall, fallback |-> NoCall]
  /\ calls = <<>>
  /\ vision = None
  /\ analysis = None
  /\ outcome = Pending
  /\ \/ \E text \in GuardTexts : run = [type |-> "validate", text |-> text]
     \/ \E text \in ClampTexts : run = [type |-> "clamp", text |-> text]
     \/ \E upload \in {None} \cup {Some(f) : f \in ImageFiles} :
          run = [type |-> "preprocess", upload |-> upload]

\* validate_menu_like_text(run.text): it returns, or raises
\* SuspiciousMenuInputError for the rule named in the message
GuardCall ==
  /\ outcome.kind = "pending"
  /\ run.type = "validate"
  /\ LET v == validate_menu_like_text(run.text) IN
     outcome' = IF v.ok THEN Outcome("return", None, None, None, NoMsg)
                ELSE Raised("SuspiciousMenuInputError", Msg(v.rule, <<>>), None)
  /\ UNCHANGED <<session, now, run, provider, calls, vision, analysis>>

\* clamp_text_input(run.text)
ClampCall ==
  /\ outcome.kind = "pending"
  /\ run.type = "clamp"
  /\ outcome' = Outcome("return", Some(clamp_text_input(run.text)), None, None, NoMsg)
  /\ UNCHANGED <<session, now, run, provider, calls, vision, analysis>>

\* preprocess_image_for_groq(run.upload): lines 266-268 for no file, the
\* rest of the function for a file
PreprocessCall ==
  /\ outcome.kind = "pending"
  /\ run.type = "preprocess"
  /\ IF run.upload = None
     THEN /\ outcome' = Raised("ValueError", Msg("No image uploaded.", <<>>), None)
          /\ calls' = <<>>
     ELSE LET pre == preprocess_image_for_groq(The(run.upload)) IN
          /\ outcome' = IF pre.kind = "return"
                         THEN Outcome("return", Some(pre.data_url), None, Some(pre.meta), NoMsg)
                         ELSE Raised(pre.kind, pre.err, None)
          \* the calls of image.save, in order
          /\ calls' = [k \in 1..Len(pre.saves) |-> [save |-> "JPEG", quality |-> pre.saves[k]]]
  /\ UNCHANGED <<session, now, run, provider, vision, analysis>>

InputNext == GuardCall \/ ClampCall \/ PreprocessCall
SpecInput == InputInit /\ [][InputNext]_vars

(***************************************************************************)
(* Properties of analyze_menu_text and extract_menu_text_from_image.       *)
(* They read `analysis`, `calls` and `provider`, so they say the same in   *)
(* SpecCore and in the session flow.                                       *)
(***************************************************************************)
\* analyze_menu_text ran and has ended
Analyzed == IsSome(analysis)
\* the provider response whose body analyze_menu_text went on with, if any
Received ==
  IF provider.primary.kind = "ok" THEN Some(provider.primary)
  ELSE IF provider.fallback.kind = "ok" THEN Some(provider.fallback)
  ELSE None
\* its body, None counting as the empty text
ReceivedBody ==
  IF IsSome(The(Received).content) THEN The(The(Received).content) ELSE <<>>
\* the body parsed as JSON
ReceivedJson == Loads(ReceivedBody)
GotJson == Analyzed /\ IsSome(Received) /\ ReceivedJson.ok
\* the provider messages that are rate-limit-like
RateLimitMessages == {ERR_RATE_LIMIT, ERR_429, ERR_TOO_MANY}

\* C1: whenever the body analyze_menu_text received, from the primary or from
\* the fallback call, parses as a JSON object that lacks one of the six
\* required top-level keys, analyze_menu_text ends with InvalidJSONResponse
\* and returns no result.
C1_MissingKeyRejected ==
  (GotJson /\ ReceivedJson.val.t = "obj"
     /\ \E i \in 1..Len(TOP_LEVEL_KEYS) : ~HasKey(ReceivedJson.val, TOP_LEVEL_KEYS[i]))
  => (The(analysis).kind = "InvalidJSONResponse" /\ The(analysis).value = None)
\* a body from the fallback call, lacking only red_flags, was rejected
C1_Witness ==
  /\ GotJson /\ provider.primary.kind = "raise" /\ Len(calls) = 2
  /\ ReceivedJson.val.t = "obj"
  /\ ~HasKey(ReceivedJson.val, K_red_flags)
  /\ \A i \in 1..5 : HasKey(ReceivedJson.val, TOP_LEVEL_KEYS[i])
  /\ The(analysis).kind = "InvalidJSONResponse"

\* raw is body without its leading and trailing whitespace
IsTrimOf(raw, body) ==
  /\ raw # <<>> => raw[1].k # "ws" /\ raw[Len(raw)].k # "ws"
  /\ \E i \in 0..Len(body) :
       /\ i + Len(raw) <= Len(body)
       /\ SubSeq(body, i + 1, i + Len(raw)) = raw
       /\ \A j \in (1..i) \cup ((i + Len(raw) + 1)..Len(body)) : body[j].k = "ws"

\* C2 as stated: whenever analyze_menu_text ends with InvalidJSONResponse, the
\* error's raw_output equals the response body that was received.
C2_RawEqualsBody ==
  (Analyzed /\ The(analysis).kind = "InvalidJSONResponse")
  => (IsSome(Received) /\ The(analysis).raw = Some(ReceivedBody))
\* C2 amended: whenever analyze_menu_text ends with InvalidJSONResponse, the
\* error's raw_output equals the response body that was received with its
\* leading and trailing whitespace removed, a missing body counting as the
\* empty text.
C2_RawIsTrimmedBody ==
  (Analyzed /\ The(analysis).kind = "InvalidJSONResponse")
  => (IsSome(Received) /\ IsSome(The(analysis).raw)
      /\ IsTrimOf(The(The(analysis).raw), ReceivedBody))
\* the body "{not json" with whitespace around it failed to parse and
\* raw_output is "{not json"
C2_Witness ==
  /\ Analyzed /\ The(analysis).kind = "InvalidJSONResponse"
  /\ IsSome(Received) /\ ReceivedBody # NOT_JSON
  /\ The(analysis).raw = Some(NOT_JSON)

\* C3: a rate-limit-like failure of the primary call ends analyze_menu_text
\* with RateLimitLikeError after that one call; a rate-limit-like failure of
\* the fallback call ends it with RateLimitLikeError after the two calls.
C3_RateLimitAborts ==
  Analyzed =>
    /\ (provider.primary.kind = "raise" /\ provider.primary.msg \in RateLimitMessages)
         => /\ Len(calls) = 1
            /\ calls[1].response_format = "json_schema"
            /\ The(analysis).kind = "RateLimitLikeError"
    /\ (provider.primary.kind = "raise" /\ provider.primary.msg \notin RateLimitMessages
          /\ provider.fallback.kind = "raise" /\ provider.fallback.msg \in RateLimitMessages)
         => /\ Len(calls) = 2
            /\ The(analysis).kind = "RateLimitLikeError"
\* the primary call failed with a rate-limit message written in capitals and
\* no fallback call followed
C3_Witness ==
  /\ Analyzed /\ provider.primary = Raises(ERR_TOO_MANY)
  /\ Len(calls) = 1 /\ The(analysis).kind = "RateLimitLikeError"

\* C4: analyze_menu_text issues the json_schema call first; it issues a second
\* call exactly when the first failed for a reason that is not
\* rate-limit-like, and that call differs from the first only in asking for
\* json_object; it never issues a third.  extract_menu_text_from_image
\* issues exactly one call.
C4_OneFallback ==
  /\ Analyzed =>
       /\ Len(calls) \in {1, 2}
       /\ calls[1].response_format = "json_schema"
       /\ calls[1].model = TEXT_MODEL
       /\ Len(calls) = 2 <=> (provider.primary.kind = "raise"
                               /\ provider.primary.msg \notin RateLimitMessages)
       /\ Len(calls) = 2 => calls[2] = [calls[1] EXCEPT !.response_format = "json_object"]
  /\ (run.type = "extract" /\ outcome.kind # "pending")
       => (Len(calls) = 1 /\ calls[1].model = VISION_MODEL)
\* in Roast mode the schema call failed and the fallback call was issued
C4_Witness ==
  /\ Analyzed /\ provider.primary = Raises(ERR_SCHEMA)
  /\ Len(calls) = 2 /\ calls[2].temperature = 100
  /\ calls[2].response_format = "json_object"

\* x holds a key the shape contract (CRITIQUE_JSON_SCHEMA) does not declare
Undeclared(d, keys) ==
  \E j \in 1..Len(d.v) : \A i \in 1..Len(keys) : d.v[j][1] # keys[i]
UndeclaredIn(x, k, keys) ==
  HasKey(x, k) /\ GetKey(x, k).t = "obj" /\ Undeclared(GetKey(x, k), keys)
UndeclaredInItems(x, k, keys) ==
  /\ HasKey(x, k) /\ GetKey(x, k).t = "arr"
  /\ \E i \in 1..Len(GetKey(x, k).v) :
       GetKey(x, k).v[i].t = "obj" /\ Undeclared(GetKey(x, k).v[i], keys)
HasUndeclaredKey(x) ==
  /\ x.t = "obj"
  /\ \/ Undeclared(x, TOP_LEVEL_KEYS)
     \/ UndeclaredIn(x, K_scores, SCORE_KEYS)
     \/ UndeclaredIn(x, K_revenue_levers, REVENUE_KEYS)
     \/ UndeclaredInItems(x, K_rewrite_examples, REWRITE_KEYS)
     \/ UndeclaredInItems(x, K_ab_tests, AB_TEST_KEYS)

\* C5: a parsed critique that holds an undeclared key, at the top level, in
\* scores, in revenue_levers or in an item of rewrite_examples or ab_tests,
\* ends analyze_menu_text with InvalidJSONResponse, and no returned result
\* holds an undeclared key.
C5_NoUndeclaredKeys ==
  /\ (GotJson /\ HasUndeclaredKey(ReceivedJson.val))
       => The(analysis).kind = "InvalidJSONResponse"
  /\ (Analyzed /\ The(analysis).kind = "return")
       => ~HasUndeclaredKey(The(The(analysis).value))

\* C6: in every returned result each of the five scores is present and is an
\* integer in 0..100; a score of another JSON type or out of range is not
\* returned.
C6_ScoresAreIntegers ==
  (Analyzed /\ The(analysis).kind = "return") =>
    LET scores == GetKey(The(The(analysis).value), K_scores) IN
    \A i \in 1..Len(SCORE_KEYS) :
      /\ HasKey(scores, SCORE_KEYS[i])
      /\ GetKey(scores, SCORE_KEYS[i]).t = "int"
      /\ GetKey(scores, SCORE_KEYS[i]).v \in 0..100

\* C7: in every returned result top_5_changes is a list of 1 to 5 strings.
C7_OneToFiveChanges ==
  (Analyzed /\ The(analysis).kind = "return") =>
    LET changes == GetKey(The(The(analysis).value), K_top_5_changes) IN
    /\ changes.t = "arr"
    /\ \A i \in 1..Len(changes.v) : changes.v[i].t = "str"
    /\ Len(changes.v) \in 1..5

(***************************************************************************)
(* Properties of the session flow, checked under Spec.                     *)
(***************************************************************************)
\* the last run made a request that passed _enforce_rate_limit
Admitted == run.type # "none" /\ last_request_ts = run.at
CritiqueCalls == SelectSeq(calls, LAMBDA c : c.model = TEXT_MODEL)

\* C8: when analyze_menu_text returns (the critique, the raw text and the
\* metadata), the run ends in none of the error branches: the critique is
\* stored as last_result with its pretty JSON text, and the invalid raw
\* output and its error are cleared.
C8_SuccessStored ==
  (analysis # None /\ The(analysis).kind = "return") =>
    /\ outcome.kind = "success"
    /\ last_result = The(analysis).value
    /\ last_result_json_text = dumps_pretty_json(The(The(analysis).value))
    /\ last_invalid_json_raw = <<>>
    /\ last_invalid_json_error = NoMsg

\* C9: a request (new or retry) made less than 10 seconds after the last
\* accepted one ends with the wait-time error, issues no provider call and is
\* not queued; the reported wait, in whole seconds, is at least the remaining
\* time and at most 10; two accepted requests are at least 10 seconds apart.
C9_Step ==
  LET elapsed == run'.at - last_request_ts
      wait == DigitsVal(outcome'.err.arg)
  IN /\ (run'.type # "none" /\ elapsed < COOLDOWN) =>
          /\ outcome'.kind = "ValueError"
          /\ outcome'.err.msg = "Please wait {wait}s before sending another request."
          /\ calls' = <<>>
          /\ ~queued_retry'
          /\ last_request_ts' = last_request_ts
          /\ wait * TicksPerSecond >= COOLDOWN - elapsed
          /\ wait <= REQUEST_COOLDOWN_SECONDS
     /\ last_request_ts' # last_request_ts =>
          last_request_ts' - last_request_ts >= COOLDOWN
C9_Cooldown == [][C9_Step]_vars

\* C10: the menu text of a request (the pasted text, or the text extracted
\* from the image) goes through validate_menu_like_text before the critique
\* call: when the guard rejects it, no critique call is issued and the
\* request ends with SuspiciousMenuInputError.
ExtractedText == clamp_text_input(The(vision).menu_text)
GuardedText ==
  IF run.widgets.input_mode = "Paste menu text"
  THEN clamp_text_input(run.widgets.menu_text_input)
  ELSE IF vision # None
          /\ ~FloatLt(The(vision).confidence, Num(MIN_VISION_CONFIDENCE))
          /\ Len(StripStr(ExtractedText)) >= MIN_EXTRACTED_TEXT_CHARS
  THEN ExtractedText
  ELSE <<>>
C10_GuardBeforeCritique ==
  (/\ Admitted /\ run.type = "new"
   /\ GuardedText # <<>>
   /\ ~validate_menu_like_text(GuardedText).ok) =>
    /\ CritiqueCalls = <<>>
    /\ outcome.kind = "SuspiciousMenuInputError"

\* C11: for a request made from an image, the critique call is issued only
\* after the vision call returned a result with confidence of at least 0.45
\* and clamped text of at least 20 characters; a result with confidence
\* below 0.45 or a shorter text ends the request with VisionExtractionError,
\* whatever its notes, and no critique call is issued.
ImageRequest ==
  Admitted /\ run.type = "new" /\ run.widgets.input_mode = "Upload menu image"
ConfidentEnough(v) == v.confidence.k = "num" /\ v.confidence.h >= MIN_VISION_CONFIDENCE
LongEnough(v) == Len(clamp_text_input(v.menu_text)) >= MIN_EXTRACTED_TEXT_CHARS
C11_VisionGate ==
  ImageRequest =>
    /\ CritiqueCalls # <<>> =>
         /\ vision # None /\ ConfidentEnough(The(vision)) /\ LongEnough(The(vision))
         /\ calls[1].model = VISION_MODEL
         /\ \A i \in 2..Len(calls) : calls[i].model = TEXT_MODEL
    /\ (vision # None /\ ~(ConfidentEnough(The(vision)) /\ LongEnough(The(vision)))) =>
         /\ outcome.kind = "VisionExtractionError"
         /\ CritiqueCalls = <<>>
\* confidence 0.2 and a text of 5 characters, with notes, were rejected
C11_Witness ==
  /\ ImageRequest /\ vision # None
  /\ The(vision).confidence = Num(20) /\ Len(The(vision).menu_text) = 5
  /\ The(vision).notes # <<>>
  /\ outcome.kind = "VisionExtractionError" /\ calls # <<>> /\ CritiqueCalls = <<>>

\* C12: after a request that ends in InvalidJSONResponse the session holds
\* the raw output and the request that produced it, and the page offers the
\* retry of that request; so for every raw output, the empty one included.
C12_RetryOffered ==
  outcome.kind = "InvalidJSONResponse" =>
    /\ last_invalid_json_raw = The(outcome.raw)
    /\ last_critique_request # None
    /\ LET r == The(last_critique_request) IN
       CritiqueCalls[1].messages = critique_messages(r.menu_text, r.mode, r.goal, r.context)
    /\ RetryShown

(***************************************************************************)
(* Properties of validate_menu_like_text, clamp_text_input and             *)
(* preprocess_image_for_groq, checked under SpecInput.                     *)
(***************************************************************************)
Validated == run.type = "validate" /\ outcome.kind # "pending"
\* the text without the whitespace at its two ends
Trimmed(text) ==
  LET inner(i) == /\ \E j \in 1..i : ~IsSpaceCh(text[j])
                  /\ \E j \in i..Len(text) : ~IsSpaceCh(text[j])
      kept == SelectSeq([i \in 1..Len(text) |-> i], inner)
  IN [k \in 1..Len(kept) |-> text[kept[k]]]
TrimmedLength(text) == Len(Trimmed(text))

\* C13: validate_menu_like_text raises SuspiciousMenuInputError for every
\* text whose trimmed length is below 20, whatever it holds (prices, line
\* breaks, menu words).
C13_ShortRejected ==
  (Validated /\ TrimmedLength(run.text) < 20) => outcome.kind = "SuspiciousMenuInputError"
\* a short text with a price and a menu word was rejected
C13_Witness ==
  /\ Validated /\ run.text = <<"$", "5">> \o <<" ">> \o FIVE_CHARS
  /\ outcome.kind = "SuspiciousMenuInputError"

LineBreaks(text) == Cardinality({i \in 1..Len(text) : text[i] = "\n"})
Guardable(text) == TrimmedLength(text) >= 20 /\ Tokens(Trimmed(text)) # {}
\* C14 as stated: a text of at least 20 trimmed characters with an
\* alphabetic token of length >= 2 is accepted if it holds at least 2 line
\* breaks, a price pattern or a menu word.
C14_SignalAccepted ==
  (/\ Validated /\ Guardable(run.text)
   /\ (LineBreaks(run.text) >= 2 \/ HasPrice(run.text) \/ HasMenuWords(run.text)))
  => outcome.kind = "return"
\* C14 amended: a text of at least 20 trimmed characters with an alphabetic
\* token of length >= 2 is accepted if, once trimmed, it holds at least 2
\* line breaks, a price pattern or a menu word.
C14_TrimmedSignalAccepted ==
  (/\ Validated /\ Guardable(run.text)
   /\ \/ LineBreaks(Trimmed(run.text)) >= 2
      \/ HasPrice(Trimmed(run.text))
      \/ HasMenuWords(Trimmed(run.text)))
  => outcome.kind = "return"
\* three runs of consonants on three lines were accepted for their two line
\* breaks alone
C14_Witness ==
  /\ Validated /\ Guardable(run.text)
  /\ LineBreaks(Trimmed(run.text)) = 2
  /\ ~HasPrice(run.text) /\ ~HasMenuWords(run.text)
  /\ Cardinality(Tokens(run.text)) = 3
  /\ outcome.kind = "return"

Clamped == run.type = "clamp" /\ outcome.kind = "return"
\* C15: clamp_text_input is idempotent and bounded: clamping its result
\* again gives the same text, and the result has at most 12000 characters,
\* also when the cut at 12000 characters falls just after whitespace.
C15_ClampIdempotent ==
  Clamped =>
    /\ clamp_text_input(The(outcome.value)) = The(outcome.value)
    /\ Len(The(outcome.value)) <= MAX_TEXT_CHARS

\* a call of preprocess_image_for_groq on a file that PIL can open
Preprocessed ==
  /\ run.type = "preprocess" /\ outcome.kind # "pending"
  /\ run.upload # None /\ The(run.upload).image
LowestQuality(file) == file.jpeg[Len(QUALITIES)]
WithinBudget ==
  /\ outcome.kind \in {"return", "ValueError"}
  /\ outcome.kind = "return" =>
       /\ The(outcome.value).bytes <= TARGET_IMAGE_BYTES
       /\ The(outcome.meta).bytes <= TARGET_IMAGE_BYTES
Extracted == run.type = "extract" /\ outcome.kind = "return" /\ vision # <<>>
\* the confidence the model's answer reports: what float() makes of the
\* "confidence" member of the response object, if there is one
ReportedConfidence == PyFloat(GetOr(Loads(The(vision).raw).val, K_confidence, JInt(0)))
NotANumber(c) == ~c.ok \/ c.f.k = "nan"
\* C16: the confidence stored with an extraction lies in [0, 1]: a reported
\* value below 0 is stored as 0, one above 1 as 1, and a missing or
\* non-numeric one (null, a non-numeric string, a list, not-a-number) as 0.
C16_ConfidenceClamped ==
  Extracted =>
    /\ The(vision).confidence.k = "num"
    /\ The(vision).confidence.h \in 0..100
    /\ The(vision).confidence =
         IF NotANumber(ReportedConfidence) THEN Num(0)
         ELSE IF FloatLt(ReportedConfidence.f, Num(0)) THEN Num(0)
         ELSE IF FloatLt(Num(100), ReportedConfidence.f) THEN Num(100)
         ELSE ReportedConfidence.f

ExtractDone == run.type = "extract" /\ outcome.kind # "pending"
\* the body of the vision response, if the provider answered
VisionBody == chat_content_text(provider.vision)
\* C17: whatever the provider does, the extraction returns a result or
\* fails with RateLimitLikeError or VisionExtractionError and nothing else;
\* a body that is not valid JSON gives VisionExtractionError carrying the
\* raw text, and a body that is valid JSON but no object gives one of the
\* two typed failures as well.
C17_TypedFailures ==
  ExtractDone =>
    /\ outcome.kind \in {"return", "RateLimitLikeError", "VisionExtractionError"}
    /\ outcome.kind = "return" <=> vision # <<>>
    /\ (provider.vision.kind = "ok" /\ ~Loads(VisionBody).ok) =>
         outcome.kind = "VisionExtractionError" /\ outcome.raw = Some(VisionBody)
    /\ (provider.vision.kind = "ok" /\ Loads(VisionBody).ok /\ Loads(VisionBody).val.t # "obj") =>
         outcome.kind \in {"RateLimitLikeError", "VisionExtractionError"}

(***************************************************************************)
(* The failure of both calls of analyze_menu_text, checked under SpecCore. *)
(***************************************************************************)
BothFailed ==
  /\ run.type = "analyze" /\ outcome.kind # "pending"
  /\ provider.primary.kind = "raise" /\ ~is_rate_limit_error(provider.primary.msg)
  /\ provider.fallback.kind = "raise" /\ ~is_rate_limit_error(provider.fallback.msg)
\* C20: when the primary and the fallback call both fail and neither
\* failure is rate-limit-like, analyze_menu_text raises MenuCriticError with
\* the message of the fallback failure; it raises no InvalidJSONResponse,
\* returns no result, and makes no third call.
C20_BothFailGeneric ==
  BothFailed =>
    /\ outcome.kind = "MenuCriticError"
    /\ outcome.err = Msg("Groq request failed: ", provider.fallback.msg)
    /\ outcome.value = None /\ outcome.raw = None
    /\ Len(calls) = 2
    /\ calls[1].response_format = "json_schema" /\ calls[2].response_format = "json_object"
\* the two calls fail with different messages
C20_Witness ==
  /\ BothFailed
  /\ provider.primary.msg # provider.fallback.msg
  /\ outcome.kind = "MenuCriticError"

\* C19: in every run of the session, for a new request from pasted text,
\* a new request from an image and a retry alike, the menu text of every
\* call of analyze_menu_text is non-empty, has no whitespace at either end
\* and has at most 12000 characters.
C19_MenuTextNormalized ==
  \A i \in 1..Len(CritiqueCalls) :
    LET text == CritiqueCalls[i].messages.user.menu_text IN
    /\ text # <<>>
    /\ Len(text) <= MAX_TEXT_CHARS
    /\ ~IsSpaceCh(text[1]) /\ ~IsSpaceCh(text[Len(text)])

(***************************************************************************)
(* The order and the thresholds of the rules of validate_menu_like_text,   *)
(* checked under SpecInput.                                                *)
(***************************************************************************)
\* two letters in a row: an alphabetic token of length >= 2
HasAlphaToken(text) ==
  \E i \in 1..(Len(text) - 1) : IsAlpha(text[i]) /\ IsAlpha(text[i + 1])
HasSignal(text) == LineBreaks(text) >= 2 \/ HasPrice(text) \/ HasMenuWords(text)
\* C21: the rules apply in order: a text of at least 20 trimmed characters
\* without an alphabetic token of length >= 2 is rejected by the second
\* rule ("no readable text"), also when it holds a price pattern or two
\* line breaks; the signals count only after the first two rules passed.
C21_RulesInOrder ==
  (Validated /\ TrimmedLength(run.text) >= 20 /\ ~HasAlphaToken(run.text)) =>
    /\ outcome.kind = "SuspiciousMenuInputError"
    /\ outcome.err = Msg("no readable text", <<>>)
\* a text of prices on seven lines was rejected by the second rule
C21_Witness ==
  /\ Validated /\ TrimmedLength(run.text) >= 20 /\ ~HasAlphaToken(run.text)
  /\ HasPrice(Trimmed(run.text)) /\ LineBreaks(Trimmed(run.text)) >= 2
  /\ outcome.err = Msg("no readable text", <<>>)

\* the tokens of a text, each by the place of its first letter
TokenStarts(text) ==
  {i \in 1..(Len(text) - 1) :
     IsAlpha(text[i]) /\ IsAlpha(text[i + 1]) /\ (i = 1 \/ ~IsAlpha(text[i - 1]))}
LongTokenStarts(text) ==
  {i \in TokenStarts(text) : i + 8 <= Len(text) /\ \A k \in i..(i + 8) : IsAlpha(text[k])}
Letters(text) == {i \in 1..Len(text) : IsAlpha(text[i])}
VowelLetters(text) ==
  {i \in Letters(text) : text[i] \in {"a", "e", "i", "o", "u", "A", "E", "I", "O", "U"}}
\* vowel ratio < 0.22 or long-token ratio > 0.6
LooksMashed(text) ==
  \/ 100 * Cardinality(VowelLetters(text)) < 22 * Cardinality(Letters(text))
  \/ 10 * Cardinality(LongTokenStarts(text)) > 6 * Cardinality(TokenStarts(text))
NoSignalText(text) ==
  /\ TrimmedLength(text) >= 20 /\ HasAlphaToken(text) /\ ~HasSignal(Trimmed(text))
\* C22: a text of at least 20 trimmed characters with an alphabetic token
\* and without any of the three signals is rejected exactly when its
\* trimmed length is below 120, or it has at most 3 tokens and a vowel
\* ratio below 0.22 or a long-token ratio above 0.6; otherwise it is
\* accepted, so 120 characters and 4 tokens without a signal always pass.
C22_NoSignalThresholds ==
  (Validated /\ NoSignalText(run.text)) =>
    /\ outcome.kind \in {"return", "SuspiciousMenuInputError"}
    /\ outcome.kind = "SuspiciousMenuInputError" <=>
         \/ TrimmedLength(run.text) < 120
         \/ Cardinality(TokenStarts(run.text)) <= 3 /\ LooksMashed(run.text)
\* four tokens of consonants in 120 characters were accepted
C22_Witness ==
  /\ Validated /\ NoSignalText(run.text)
  /\ TrimmedLength(run.text) >= 120
  /\ Cardinality(TokenStarts(run.text)) = 4 /\ LooksMashed(run.text)
  /\ outcome.kind = "return"

(***************************************************************************)
(* The quality ladder of preprocess_image_for_groq, checked under          *)
(* SpecInput.                                                              *)
(***************************************************************************)
Fits(file, k) == file.jpeg[k] <= TARGET_IMAGE_BYTES
\* C23: the qualities 90, 85, 78, 72, 65, 58, 50 are tried in that order
\* up to the first whose encoding has at most 3,500,000 bytes: on success
\* the quality of the metadata is the highest one that fits, no lower one
\* was tried after it, and the bytes of the metadata are the size of the
\* encoding held by the payload.
C23_QualityLadder ==
  (Preprocessed /\ outcome.kind = "return") =>
    \E k \in 1..7 :
      /\ The(outcome.meta).quality = <<90, 85, 78, 72, 65, 58, 50>>[k]
      /\ Fits(The(run.upload), k)
      /\ \A j \in 1..(k - 1) : ~Fits(The(run.upload), j)
      /\ Len(calls) = k
      /\ \A j \in 1..k : calls[j].quality = <<90, 85, 78, 72, 65, 58, 50>>[j]
      /\ The(outcome.meta).bytes = The(run.upload).jpeg[k]
      /\ The(outcome.value).bytes = The(outcome.meta).bytes
      /\ The(outcome.value).quality = The(outcome.meta).quality
\* an image whose first two encodings are too large was returned at
\* quality 78 after three encodings
C23_Witness ==
  /\ Preprocessed /\ outcome.kind = "return"
  /\ The(outcome.meta).quality = 78 /\ Len(calls) = 3
  /\ Fits(The(run.upload), 7)

(***************************************************************************)
(* The classification of provider failures at the three call sites,        *)
(* checked under SpecCore.                                                 *)
(***************************************************************************)
\* the phrase occurs in the message, letters compared without case
HasPhrase(message, phrase) ==
  \E i \in 0..(Len(message) - Len(phrase)) :
    \A k \in 1..Len(phrase) : LowerCh(message[i + k]) = phrase[k]
RateLimitLike(message) ==
  \/ HasPhrase(message, <<"r", "a", "t", "e", " ", "l", "i", "m", "i", "t">>)
  \/ HasPhrase(message, <<"4", "2", "9">>)
  \/ HasPhrase(message, <<"t", "o", "o", " ", "m", "a", "n", "y", " ", "r", "e", "q", "u", "e", "s", "t", "s">>)
\* C24: at the vision call, the primary call and the fallback call a
\* failure is rate-limit-like exactly when its message holds "rate limit",
\* "429" or "too many requests" in any case; a rate-limit-like failure
\* surfaces as RateLimitLikeError, any other as VisionExtractionError (vision),
\* as a fallback call (primary) or as MenuCriticError (fallback).
C24_Classification ==
  /\ (ExtractDone /\ provider.vision.kind = "raise") =>
       /\ Len(calls) = 1
       /\ outcome.kind = IF RateLimitLike(provider.vision.msg)
                         THEN "RateLimitLikeError" ELSE "VisionExtractionError"
  /\ (Analyzed /\ provider.primary.kind = "raise") =>
       IF RateLimitLike(provider.primary.msg)
       THEN outcome.kind = "RateLimitLikeError" /\ Len(calls) = 1
       ELSE /\ Len(calls) = 2 /\ calls[2].response_format = "json_object"
            /\ provider.fallback.kind = "raise" =>
                 outcome.kind = IF RateLimitLike(provider.fallback.msg)
                               THEN "RateLimitLikeError" ELSE "MenuCriticError"
\* the fallback call failed with "Too Many Requests" after a primary
\* failure that only resembles a rate limit
C24_Witness ==
  /\ Analyzed /\ provider.primary = Raises(ERR_NEAR_MISS)
  /\ provider.fallback = Raises(ERR_TOO_MANY)
  /\ Len(calls) = 2 /\ outcome.kind = "RateLimitLikeError"

(***************************************************************************)
(* The cooldown and the session state, checked under Spec.                 *)
(***************************************************************************)
WAIT_MESSAGE == "Please wait {wait}s before sending another request."
\* the run that ends in the primed state made a request that
\* _enforce_rate_limit turned down
TurnedDown == run'.type # "none" /\ outcome'.kind = "ValueError" /\ outcome'.err.msg = WAIT_MESSAGE
\* C25: a request turned down by the cooldown check leaves the session
\* state as it was: the timestamp of the last request, the last critique
\* request, the last result, the last invalid raw output and its error keep
\* their values, so the window still runs from the last accepted request.
C25_Step ==
  TurnedDown =>
    /\ last_request_ts' = last_request_ts
    /\ last_critique_request' = last_critique_request
    /\ last_result' = last_result
    /\ last_result_json_text' = last_result_json_text
    /\ last_invalid_json_raw' = last_invalid_json_raw
    /\ last_invalid_json_error' = last_invalid_json_error
    /\ queued_retry' = queued_retry
    /\ last_uploaded_image' = last_uploaded_image
C25_RejectionKeepsSession == [][C25_Step]_vars
\* a new request with another text was turned down while the session held
\* a request and an invalid raw output, 3 s after the accepted one
C25_Witness ==
  /\ run.type = "new" /\ outcome.kind = "ValueError" /\ outcome.err.msg = WAIT_MESSAGE
  /\ last_critique_request # None /\ last_invalid_json_raw # <<>>
  /\ run.widgets.menu_text_input # <<>>
  /\ run.widgets.menu_text_input # The(last_critique_request).menu_text
  /\ run.at - last_request_ts < COOLDOWN /\ last_request_ts > 0

\* C26: the timestamp of the last request is set exactly when a request
\* passes the cooldown check, and before the request is built or any call
\* is made: a request that then fails without a provider call (empty text,
\* no image, image too large) starts a new window of 10 seconds as well.
C26_Step ==
  /\ run'.type = "none" => last_request_ts' = last_request_ts
  /\ run'.type # "none" =>
       IF run'.at - last_request_ts >= COOLDOWN
       THEN last_request_ts' = run'.at /\ ~TurnedDown
       ELSE last_request_ts' = last_request_ts /\ TurnedDown
C26_TimestampOnAdmission == [][C26_Step]_vars
\* a request with an image of more than 8 MiB failed without a call and
\* set the timestamp
C26_Witness ==
  /\ Admitted /\ run.type = "new" /\ calls = <<>>
  /\ run.widgets.uploaded_image = Some(IMG_TOO_LARGE)
  /\ outcome.kind = "ValueError" /\ outcome.err.msg = "Image is too large"

(***************************************************************************)
(* The stored result and the stored request, checked under Spec.           *)
(***************************************************************************)
\* C27: a stored last result was produced by analyzing the request stored
\* as the last critique request: the result changes only to the value an
\* analysis of the stored request returned, and while a result is stored
\* the stored request does not change without it.
C27_Step ==
  /\ last_result' # last_result =>
       /\ analysis' # None /\ The(analysis').kind = "return"
       /\ last_result' = The(analysis').value
       /\ last_critique_request' # None
       /\ \A i \in 1..Len(calls') :
            calls'[i].model = TEXT_MODEL =>
              calls'[i].messages.user.menu_text = The(last_critique_request').menu_text
  /\ (last_result # None /\ last_critique_request' # last_critique_request) =>
       last_result' # last_result
C27_ResultOfStoredRequest == [][C27_Step]_vars
\* line 522 lets no analysis store its result
C27_NoResultStored == last_result = None

(***************************************************************************)
(* Retries, checked under Spec.                                            *)
(***************************************************************************)
\* C28: a retry that passes the cooldown check calls analyze_menu_text
\* with the menu text, mode, goal and context of the stored request,
\* whatever the widgets hold, and neither handles an image nor calls the
\* vision model; a retry inside the window is turned down like a new
\* request; the stored request changes only to a new request that was
\* built and sent to analyze_menu_text.
C28_Step ==
  /\ run'.type = "retry" =>
       /\ last_critique_request # None
       /\ last_critique_request' = last_critique_request
       /\ last_uploaded_image' = last_uploaded_image
       /\ vision' = None
       /\ IF run'.at - last_request_ts < COOLDOWN
          THEN TurnedDown /\ calls' = <<>>
          ELSE LET r == The(last_critique_request) IN
               /\ calls' # <<>>
               /\ \A i \in 1..Len(calls') :
                    /\ calls'[i].model = TEXT_MODEL
                    /\ calls'[i].messages =
                         critique_messages(r.menu_text, r.mode, r.goal, r.context)
  /\ last_critique_request' # last_critique_request =>
       /\ run'.type = "new" /\ last_request_ts' = run'.at
       /\ last_critique_request' # None
       /\ The(last_critique_request').mode = run'.widgets.mode
       /\ The(last_critique_request').goal = run'.widgets.goal
       /\ \E i \in 1..Len(calls') :
            /\ calls'[i].model = TEXT_MODEL
            /\ calls'[i].messages.user.menu_text = The(last_critique_request').menu_text
C28_RetryUsesStoredRequest == [][C28_Step]_vars
\* a retry was analyzed in the mode of the stored request while the
\* widgets showed the other mode and the image input
C28_Witness ==
  /\ run.type = "retry" /\ Admitted /\ calls # <<>>
  /\ run.widgets.mode # The(last_critique_request).mode
  /\ run.widgets.input_mode = "Upload menu image"
  /\ run.widgets.uploaded_image # None
  /\ CritiqueCalls = calls

====
